---- MODULE Spec2Model ----
(***************************************************************************)
(* Price-drop insurance widget: the policy store (utils/storage.ts), the   *)
(* claim handlers of InvoiceWidget (handleCheckClaim, handleSubmitClaim),  *)
(* the claim-proof helpers (formatMerkleRoot) and the ledger and oracle    *)
(* they talk to.                                                           *)
(*                                                                         *)
(* A string whose characters the code inspects (policy ids, Merkle roots,  *)
(* wallet addresses) is a sequence of one-character strings; an opaque     *)
(* string (a transaction hash, a commitment) is a TLA+ string.  Timestamps *)
(* (checkedAt, claimedAt, createdAt) and display-only fields are left out  *)
(* of the records.                                                         *)
(***************************************************************************)
EXTENDS Integers, Sequences, FiniteSets, TLC

VARIABLES
    store,          \* localStorage: lower-cased address |-> list of PolicyData
    policies,       \* React state `policies` of the widget
    claimStates,    \* React state `claimStates`: policyId |-> ClaimState
    tasks,          \* handler invocations: position and captured closure
    ledgerRoot,     \* the vault's priceMerkleRoot (a 256-bit number)
    ledgerPolicies, \* the vault's policies(policyId) records
    txs,            \* claimPayout transactions sent to the vault
    receipts,       \* the claimPayout receipts obtained and whether the store took them
    outcome,        \* the handler invocation that returned last
    gated,          \* TRUE: handlers run only from the rendered, enabled buttons
    cachedArtifacts,\* `cachedArtifacts` of the prover module; NoArtifacts is null
    fetches,        \* artifact |-> the number of fetch() calls made for it
    catalog         \* data/products.json of the catalog API: a list of Product

vars == <<store, policies, claimStates, tasks, ledgerRoot, ledgerPolicies,
          txs, receipts, outcome, gated, cachedArtifacts, fetches, catalog>>

---------------------------------------------------------------------------
(* Bounds of the model. *)

\* handler invocations over a run of the rendered widget
MaxTasks == 3
\* handler invocations over a run where the handlers are called directly
MaxCalls == 2
\* policies bought over a run
MaxPolicies == 1
\* records one address holds over a run of calls of the store
MaxStored == 2
\* store calls over a run of two sessions on one localStorage
MaxStoreCalls == 3

---------------------------------------------------------------------------
(* Characters and strings. *)

UpperLetters == <<"A","B","C","D","E","F","G","H","I","J","K","L","M",
                  "N","O","P","Q","R","S","T","U","V","W","X","Y","Z">>
LowerLetters == <<"a","b","c","d","e","f","g","h","i","j","k","l","m",
                  "n","o","p","q","r","s","t","u","v","w","x","y","z">>
DecDigits == <<"0","1","2","3","4","5","6","7","8","9">>
HexDigits == <<"0","1","2","3","4","5","6","7","8","9","a","b","c","d","e","f">>

Range(s) == {s[i] : i \in DOMAIN s}

LowerChar(c) ==
    IF \E i \in DOMAIN UpperLetters : UpperLetters[i] = c
    THEN LowerLetters[CHOOSE i \in DOMAIN UpperLetters : UpperLetters[i] = c]
    ELSE c

\* String.prototype.toLowerCase
ToLowerCase(s) == [i \in DOMAIN s |-> LowerChar(s[i])]

DecVal(c) == (CHOOSE i \in DOMAIN DecDigits : DecDigits[i] = c) - 1
HexVal(c) == (CHOOSE i \in DOMAIN HexDigits : HexDigits[i] = LowerChar(c)) - 1

IsDecChar(c) == c \in Range(DecDigits)
IsHexChar(c) == LowerChar(c) \in Range(HexDigits)

RECURSIVE ParseDec(_)
ParseDec(s) ==
    IF Len(s) = 0 THEN 0
    ELSE 10 * ParseDec(SubSeq(s, 1, Len(s) - 1)) + DecVal(s[Len(s)])

RECURSIVE ParseHex(_)
ParseHex(s) ==
    IF Len(s) = 0 THEN 0
    ELSE 16 * ParseHex(SubSeq(s, 1, Len(s) - 1)) + HexVal(s[Len(s)])

\* /^[0-9]+$/.test(s)
IsDecimalDigits(s) == Len(s) > 0 /\ \A i \in DOMAIN s : IsDecChar(s[i])

SyntaxError == -1

\* BigInt(string): the empty string is 0n, 0x/0X starts a hexadecimal literal,
\* otherwise decimal digits; anything else throws a SyntaxError.
BigIntOfString(s) ==
    IF Len(s) = 0 THEN 0
    ELSE IF Len(s) >= 2 /\ s[1] = "0" /\ s[2] \in {"x", "X"}
    THEN IF Len(s) > 2 /\ \A i \in 3..Len(s) : IsHexChar(s[i])
         THEN ParseHex(SubSeq(s, 3, Len(s)))
         ELSE SyntaxError
    ELSE IF \A i \in DOMAIN s : IsDecChar(s[i])
    THEN ParseDec(s)
    ELSE SyntaxError

RECURSIVE ToHexString(_)
\* bigint.toString(16)
ToHexString(n) ==
    IF n < 16 THEN <<HexDigits[n + 1]>>
    ELSE ToHexString(n \div 16) \o <<HexDigits[(n % 16) + 1]>>

\* String.prototype.padStart(width, c)
PadStart(s, width, c) ==
    IF Len(s) >= width THEN s
    ELSE [i \in 1..(width - Len(s)) |-> c] \o s

HexWidth == 64

\* toHex32 of a bigint
toHex32(n) == <<"0", "x">> \o PadStart(ToHexString(n), HexWidth, "0")

\* formatMerkleRoot: toHex32(root), or root itself when BigInt(root) throws
formatMerkleRoot(root) ==
    IF BigIntOfString(root) = SyntaxError THEN root
    ELSE toHex32(BigIntOfString(root))

---------------------------------------------------------------------------
(* JavaScript objects with optional fields are functions on the set of     *)
(* the fields they have.                                                   *)

Has(obj, f) == f \in DOMAIN obj

EmptyObject == [f \in {} |-> 0]

\* { ...a, ...b }
Spread(a, b) ==
    [f \in DOMAIN a \cup DOMAIN b |-> IF f \in DOMAIN b THEN b[f] ELSE a[f]]

\* obj without field f (a field set to undefined reads as an absent one)
Without(obj, f) == [g \in DOMAIN obj \ {f} |-> obj[g]]

---------------------------------------------------------------------------
(* The policy store. *)

\* the key built from the address as it is spelled
PolicyKeyExact(walletAddress) == walletAddress

\* the localStorage key `zkpp_policies_${walletAddress.toLowerCase()}`
PolicyKey(walletAddress) == ToLowerCase(walletAddress)

\* localStorage.setItem
SetItem(st, key, value) ==
    [k \in DOMAIN st \cup {key} |-> IF k = key THEN value ELSE st[k]]

getPoliciesForAddress(st, walletAddress) ==
    IF PolicyKey(walletAddress) \in DOMAIN st
    THEN st[PolicyKey(walletAddress)]
    ELSE <<>>

\* the save with the test of the transaction hash left out
savePolicyAlways(st, walletAddress, policyData) ==
    SetItem(st, PolicyKey(walletAddress),
            Append(getPoliciesForAddress(st, walletAddress), policyData))

savePolicyForAddress(st, walletAddress, policyData) ==
    LET existingPolicies == getPoliciesForAddress(st, walletAddress)
        exists == \E i \in DOMAIN existingPolicies :
                     existingPolicies[i].transactionHash = policyData.transactionHash
    IN  IF exists THEN st
        ELSE SetItem(st, PolicyKey(walletAddress), Append(existingPolicies, policyData))

\* Array.prototype.findIndex on policyId; 0 stands for -1
FindIndex(list, policyId) ==
    IF \E i \in DOMAIN list : list[i].policyId = policyId
    THEN CHOOSE i \in DOMAIN list :
            /\ list[i].policyId = policyId
            /\ \A j \in 1..(i - 1) : list[j].policyId # policyId
    ELSE 0

\* a merge that keeps of the record only its policyId
MergeUpdaterReplacing(policy, updates) ==
    Spread([policyId |-> policy.policyId], updates)

\* a merge of the top level only
MergeUpdaterShallow(policy, updates) == Spread(policy, updates)

\* the updater of mergePolicyForAddress
MergeUpdater(policy, updates) ==
    LET shallow == Spread(policy, updates)
    IN  IF Has(updates, "eligibility")
        THEN [shallow EXCEPT !.eligibility =
                 Spread(IF Has(policy, "eligibility") THEN policy.eligibility
                        ELSE EmptyObject,
                        updates.eligibility)]
        ELSE IF Has(policy, "eligibility")
        THEN [shallow EXCEPT !.eligibility = policy.eligibility]
        ELSE shallow

\* updater(policy), the updater a record that names the function passed:
\* the one of mergePolicyForAddress, or one a direct caller passes
ApplyUpdater(updater, policy) ==
    CASE updater.kind = "merge" -> MergeUpdater(policy, updater.updates)
      [] updater.kind = "markIneligible" -> Spread(policy, [status |-> "ineligible"])
      [] OTHER -> Without(policy, "eligibility")

\* an update that stores a record of the policyId when none has it
updatePolicyOrInsert(st, walletAddress, policyId, updater) ==
    LET existingPolicies == getPoliciesForAddress(st, walletAddress)
        index == FindIndex(existingPolicies, policyId)
        updatedPolicy ==
            ApplyUpdater(updater, IF index = 0 THEN [policyId |-> policyId]
                                  ELSE existingPolicies[index])
    IN  [found |-> TRUE,
         store |-> SetItem(st, PolicyKey(walletAddress),
                           IF index = 0 THEN Append(existingPolicies, updatedPolicy)
                           ELSE [existingPolicies EXCEPT ![index] = updatedPolicy]),
         policy |-> updatedPolicy]

\* an update that replaces every record of the policyId
updateEveryPolicy(st, walletAddress, policyId, updater) ==
    LET existingPolicies == getPoliciesForAddress(st, walletAddress)
        index == FindIndex(existingPolicies, policyId)
    IN  IF index = 0
        THEN [found |-> FALSE, store |-> st, policy |-> EmptyObject]
        ELSE [found |-> TRUE,
              store |-> SetItem(st, PolicyKey(walletAddress),
                                [i \in DOMAIN existingPolicies |->
                                    IF existingPolicies[i].policyId = policyId
                                    THEN ApplyUpdater(updater, existingPolicies[i])
                                    ELSE existingPolicies[i]]),
              policy |-> ApplyUpdater(updater, existingPolicies[index])]

\* the new store and the returned record (found = FALSE stands for null)
updatePolicyForAddress(st, walletAddress, policyId, updater) ==
    LET existingPolicies == getPoliciesForAddress(st, walletAddress)
        index == FindIndex(existingPolicies, policyId)
    IN  IF index = 0
        THEN [found |-> FALSE, store |-> st, policy |-> EmptyObject]
        ELSE LET updatedPolicy == ApplyUpdater(updater, existingPolicies[index])
             IN  [found |-> TRUE,
                  store |-> SetItem(st, PolicyKey(walletAddress),
                                    [existingPolicies EXCEPT ![index] = updatedPolicy]),
                  policy |-> updatedPolicy]

mergePolicyForAddress(st, walletAddress, policyId, updates) ==
    updatePolicyForAddress(st, walletAddress, policyId,
                           [kind |-> "merge", updates |-> updates])

\* the localStorage key `zkpp_commitments_${walletAddress.toLowerCase()}`
CommitmentKey(walletAddress) == <<"zkpp_commitments_">> \o ToLowerCase(walletAddress)

getCommitmentsForAddress(st, walletAddress) ==
    IF CommitmentKey(walletAddress) \in DOMAIN st
    THEN st[CommitmentKey(walletAddress)]
    ELSE <<>>

saveCommitmentForAddress(st, walletAddress, commitmentData) ==
    LET existingCommitments == getCommitmentsForAddress(st, walletAddress)
        exists == \E i \in DOMAIN existingCommitments :
                     existingCommitments[i].commitment = commitmentData.commitment
    IN  IF exists THEN st
        ELSE SetItem(st, CommitmentKey(walletAddress),
                     Append(existingCommitments, commitmentData))

\* localStorage.removeItem
RemoveItem(st, key) == [k \in DOMAIN st \ {key} |-> st[k]]

clearPoliciesForAddress(st, walletAddress) ==
    LET policyKey == PolicyKey(walletAddress)
        commitmentKey == CommitmentKey(walletAddress)
    IN  RemoveItem(RemoveItem(st, policyKey), commitmentKey)

---------------------------------------------------------------------------
(* The wallet, the ledger and the oracle as the widget sees them. *)

\* `address` of useWallet, and what signer.getAddress() returns
WalletAddress == <<"0", "x", "A", "b">>
SignerAddress == <<"0", "x", "A", "b">>
OtherAddress == <<"0", "x", "C", "d">>
ZeroAddress == <<"0", "x", "0", "0">>

\* the buyer an earlier ledger record may name: the wallet, in lower case, or another
Buyers == {ToLowerCase(SignerAddress), OtherAddress}

\* roots the vault publishes, as numbers
LedgerRoots == {26, 43}

\* merkleRoot strings of the oracle's JSON: 26 as upper-case hex, 43 as decimal
OracleRoots == {<<"0", "x", "1", "A">>, <<"4", "3">>}

\* current prices of the oracle catalog, and the price of the insured purchase
OraclePrices == {100, 190}
InvoicePrice == 200

DEFAULT_DROP_THRESHOLD == 10

UnknownId == <<"u", "n", "k", "n", "o", "w", "n">>
ProductB1 == <<"B", "1">>

RECURSIVE ToDecString(_)
\* bigint.toString()
ToDecString(n) ==
    IF n < 10 THEN <<DecDigits[n + 1]>>
    ELSE ToDecString(n \div 10) \o <<DecDigits[(n % 10) + 1]>>

UpperChar(c) ==
    IF \E i \in DOMAIN LowerLetters : LowerLetters[i] = c
    THEN UpperLetters[CHOOSE i \in DOMAIN LowerLetters : LowerLetters[i] = c]
    ELSE c

RECURSIVE KeepAlnum(_)
\* replace(/[^A-Z0-9]/g, '')
KeepAlnum(s) ==
    IF Len(s) = 0 THEN <<>>
    ELSE IF s[1] \in Range(UpperLetters) \cup Range(DecDigits)
    THEN <<s[1]>> \o KeepAlnum(Tail(s))
    ELSE KeepAlnum(Tail(s))

\* normalizeProductId(value) || value
normalizeProductIdOr(value) ==
    LET uppercase == KeepAlnum([i \in DOMAIN value |-> UpperChar(value[i])])
    IN  IF Len(uppercase) = 0 THEN value ELSE uppercase

\* vault.policies(id): a missing record reads as the zero record
LedgerRecord(lp, id) ==
    IF id \in DOMAIN lp THEN lp[id]
    ELSE [buyer |-> ZeroAddress, alreadyClaimed |-> FALSE]

generatePolicyData(transactionHash, policyId, commitmentData, productId) ==
    [policyId |-> policyId,
     transactionHash |-> transactionHash,
     purchaseDetails |-> [invoicePrice |-> commitmentData.invoicePrice,
                          productId |-> productId],
     secretCommitment |-> commitmentData.commitment,
     premium |-> commitmentData.premium,
     tier |-> commitmentData.tier,
     status |-> "active"]

\* the commitment of the n-th purchase
CommitmentOf(n) ==
    [commitment |-> <<"c", n>>, premium |-> 3, tier |-> 2, invoicePrice |-> InvoicePrice]

---------------------------------------------------------------------------
(* checkEligibility, from the catalog entry and the proof the oracle returned. *)

(* The prices and thresholds checkEligibility is applied to. *)

EligibilityPrices == {0, 1, 3, 10, 43, 57, 71, 90, 100, 200}

EligibilityThresholds == {10, 29, 57}

\* the purchase of 199.99 whose price fell to 99.99, in micro-units
ExamplePurchase ==
    [originalPrice |-> 199990000, currentPrice |-> 99990000,
     dropThresholdPercent |-> DEFAULT_DROP_THRESHOLD]

EligibilityInputs ==
    [originalPrice : EligibilityPrices, currentPrice : EligibilityPrices,
     dropThresholdPercent : EligibilityThresholds] \cup {ExamplePurchase}

\* the purchase prices and the catalog prices of the specifications
PurchasePrices == {InvoicePrice} \cup {input.originalPrice : input \in EligibilityInputs}

CatalogPrices == OraclePrices \cup {input.currentPrice : input \in EligibilityInputs}

(* Number arithmetic.  A Number is an IEEE 754 double; a positive one is the
   record [m, e] of its 53 significand bits, most significant first, and the
   exponent of the last bit: its value is m * 2^e.  Zero has no bits. *)
MantissaBits == 53

Zero == [m |-> <<>>, e |-> 0]

Front(s) == SubSeq(s, 1, Len(s) - 1)

RECURSIVE IntToBits(_)
IntToBits(n) == IF n = 0 THEN <<>> ELSE IntToBits(n \div 2) \o <<n % 2>>

RECURSIVE BitsToInt(_)
BitsToInt(bits) ==
    IF bits = <<>> THEN 0 ELSE 2 * BitsToInt(Front(bits)) + bits[Len(bits)]

RECURSIVE AddBits(_, _, _)
AddBits(a, b, carry) ==
    IF a = <<>> /\ b = <<>>
    THEN IF carry = 1 THEN <<1>> ELSE <<>>
    ELSE LET x == IF a = <<>> THEN 0 ELSE a[Len(a)]
             y == IF b = <<>> THEN 0 ELSE b[Len(b)]
             sum == x + y + carry
             restA == IF a = <<>> THEN a ELSE Front(a)
             restB == IF b = <<>> THEN b ELSE Front(b)
         IN  IF sum >= 2 THEN AddBits(restA, restB, 1) \o <<sum - 2>>
             ELSE AddBits(restA, restB, 0) \o <<sum>>

RECURSIVE MulBits(_, _)
MulBits(a, b) ==
    IF b = <<>> THEN <<>>
    ELSE LET doubled == IF Len(b) = 1 THEN <<>> ELSE MulBits(a, Front(b)) \o <<0>>
         IN  IF b[Len(b)] = 1 THEN AddBits(doubled, a, 0) ELSE doubled

\* the double nearest to bits * 2^e (plus a nonzero tail below the last bit
\* when sticky), ties to the even significand
RoundToNumber(bits, sticky, e) ==
    LET dropped == Len(bits) - MantissaBits
        keep == SubSeq(bits, 1, MantissaBits)
        tail == sticky \/ \E i \in (MantissaBits + 2)..Len(bits) : bits[i] = 1
        up == /\ bits[MantissaBits + 1] = 1
              /\ (tail \/ keep[MantissaBits] = 1)
        rounded == IF up THEN AddBits(keep, <<1>>, 0) ELSE keep
    IN  IF dropped <= 0
        THEN [m |-> bits \o [i \in 1..(0 - dropped) |-> 0], e |-> e + dropped]
        ELSE IF Len(rounded) > MantissaBits
             THEN [m |-> Front(rounded), e |-> e + dropped + 1]
             ELSE [m |-> rounded, e |-> e + dropped]

\* the next n bits of r / b after the binary point, for 0 <= r < b
RECURSIVE DivBits(_, _, _)
DivBits(r, b, n) ==
    IF n = 0 THEN <<>>
    ELSE LET bit == IF 2 * r >= b THEN 1 ELSE 0
         IN  <<bit>> \o DivBits(2 * r - bit * b, b, n - 1)

\* what is left of r / b after those n bits
RECURSIVE DivRem(_, _, _)
DivRem(r, b, n) ==
    IF n = 0 THEN r
    ELSE LET rest == IF 2 * r >= b THEN 2 * r - b ELSE 2 * r
         IN  IF rest = 0 THEN 0 ELSE DivRem(rest, b, n - 1)

\* the zero bits of r / b between the binary point and its first one bit
RECURSIVE LeadingZeros(_, _)
LeadingZeros(r, b) == IF 2 * r >= b THEN 0 ELSE 1 + LeadingZeros(2 * r, b)

\* a / b of two Numbers holding the integers a >= 0 and b > 0
NumberDiv(a, b) ==
    LET q == a \div b
        r == a % b
        z == IF r = 0 THEN 0 ELSE LeadingZeros(r, b)
        n == MantissaBits + 1
    IN  IF a = 0 THEN Zero
        ELSE IF q > 0
             THEN RoundToNumber(IntToBits(q) \o DivBits(r, b, n),
                                DivRem(r, b, n) # 0, 0 - n)
             ELSE RoundToNumber(DivBits(DivRem(r, b, z), b, n),
                                DivRem(r, b, z + n) # 0, 0 - (z + n))

\* x * n of a Number x and a Number holding the integer n > 0
NumberTimes(x, n) ==
    IF x = Zero THEN Zero ELSE RoundToNumber(MulBits(x.m, IntToBits(n)), FALSE, x.e)

\* Math.floor(x), for x below 2^31
Floor(x) ==
    IF x = Zero \/ MantissaBits + x.e <= 0 THEN 0
    ELSE BitsToInt(SubSeq(x.m, 1, MantissaBits + x.e))

\* x >= n for a Number holding the integer n
NumberAtLeast(x, n) == Floor(x) >= n

\* Math.round(x): the integer nearest to x, the upper one on a tie
MathRound(x) ==
    LET k == MantissaBits + x.e
    IN  Floor(x) + (IF x # Zero /\ k >= 0 /\ k < MantissaBits /\ x.m[k + 1] = 1
                    THEN 1 ELSE 0)

\* (dropAmountNumber / originalPriceNumber) * 100, or 0
DropPercentage(dropAmount, originalPrice) ==
    IF originalPrice > 0 THEN NumberTimes(NumberDiv(dropAmount, originalPrice), 100)
    ELSE Zero

\* Math.round(dropPercentage * 100) / 100, as hundredths of a percent
RoundedPercent(a, b) == MathRound(NumberTimes(DropPercentage(a, b), 100))

\* dropPercentage and its rounding, computed once for each drop of a purchase price
PriceDrops ==
    {<<IF originalPrice > currentPrice THEN originalPrice - currentPrice ELSE 0,
       originalPrice>> : originalPrice \in PurchasePrices, currentPrice \in CatalogPrices}

Percentages ==
    [drop \in PriceDrops |->
        [dropPercentage |-> DropPercentage(drop[1], drop[2]),
         rounded |-> RoundedPercent(drop[1], drop[2])]]

\* checkEligibility with the threshold taken as a fraction, not as a percentage
checkEligibilityFraction(originalPrice, currentPrice, merkleRoot, proof, dropThresholdPercent) ==
    LET dropAmount == IF originalPrice > currentPrice
                      THEN originalPrice - currentPrice ELSE 0
        eligible == /\ dropAmount > 0
                    /\ originalPrice > 0
                    /\ dropAmount >= dropThresholdPercent * originalPrice
    IN  [eligible |-> eligible,
         dropPercentage |-> Percentages[<<dropAmount, originalPrice>>].rounded,
         dropAmount |-> dropAmount,
         currentPrice |-> currentPrice,
         merkleRoot |-> merkleRoot,
         proof |-> proof,
         payoutAmount |-> dropAmount]

checkEligibility(originalPrice, currentPrice, merkleRoot, proof, dropThresholdPercent) ==
    LET dropAmount == IF originalPrice > currentPrice
                      THEN originalPrice - currentPrice ELSE 0
        percentage == Percentages[<<dropAmount, originalPrice>>]
        eligible == /\ dropAmount > 0
                    /\ NumberAtLeast(percentage.dropPercentage, dropThresholdPercent)
    IN  [eligible |-> eligible,
         dropPercentage |-> percentage.rounded,
         dropAmount |-> dropAmount,
         currentPrice |-> currentPrice,
         merkleRoot |-> merkleRoot,
         proof |-> proof,
         payoutAmount |-> dropAmount]

---------------------------------------------------------------------------
(* The widget's in-memory claim state. *)

\* updateClaimState(policyId, partial); clear lists the fields partial sets to undefined
updateClaimState(cs, policyId, partial, clear) ==
    LET existing == IF policyId \in DOMAIN cs THEN cs[policyId] ELSE EmptyObject
        nextStatus == IF Has(partial, "status") THEN partial.status
                      ELSE IF Has(existing, "status") THEN existing.status
                      ELSE "active"
        merged == Spread(Spread(existing, partial), [status |-> nextStatus])
        entry == [f \in DOMAIN merged \ clear |-> merged[f]]
    IN  [k \in DOMAIN cs \cup {policyId} |-> IF k = policyId THEN entry ELSE cs[k]]

\* the claim state the mount effect derives from one stored policy
LoadedClaimState(policy, prev) ==
    LET previous == IF policy.policyId \in DOMAIN prev
                    THEN prev[policy.policyId] ELSE EmptyObject
        prevElig == IF Has(previous, "eligibility") THEN previous.eligibility
                    ELSE EmptyObject
        status == IF Has(policy, "status") THEN policy.status
                  ELSE IF Has(previous, "status") THEN previous.status
                  ELSE "active"
        pe == policy.eligibility
        eligibility ==
            Spread([dropPercentage |-> pe.dropPercentage,
                    dropAmountMicros |-> pe.dropAmount,
                    currentPriceMicros |-> pe.currentPrice,
                    merkleRoot |-> IF Has(pe, "merkleRoot") THEN pe.merkleRoot
                                   ELSE IF Has(prevElig, "merkleRoot")
                                   THEN prevElig.merkleRoot ELSE <<>>,
                    payoutAmount |-> IF Has(pe, "payoutAmount") THEN pe.payoutAmount
                                     ELSE IF Has(prevElig, "payoutAmount")
                                     THEN prevElig.payoutAmount ELSE 0],
                   IF Has(pe, "proof") THEN [proof |-> pe.proof]
                   ELSE IF Has(prevElig, "proof") THEN [proof |-> prevElig.proof]
                   ELSE EmptyObject)
        base == [status |-> status]
        withElig == IF Has(policy, "eligibility")
                    THEN Spread(base, [eligibility |-> eligibility])
                    ELSE IF Has(previous, "eligibility")
                    THEN Spread(base, [eligibility |-> previous.eligibility])
                    ELSE base
        withTx == IF Has(policy, "claimTxHash")
                  THEN Spread(withElig, [txHash |-> policy.claimTxHash])
                  ELSE IF Has(previous, "txHash")
                  THEN Spread(withElig, [txHash |-> previous.txHash])
                  ELSE withElig
    IN  IF Has(previous, "error")
        THEN Spread(withTx, [error |-> previous.error]) ELSE withTx

\* the mount effect: storedPolicies.forEach writes next[policy.policyId], last one wins
LoadClaimStates(storedPolicies, prev) ==
    [id \in {storedPolicies[i].policyId : i \in DOMAIN storedPolicies} |->
        LoadedClaimState(
            storedPolicies[CHOOSE i \in DOMAIN storedPolicies :
                /\ storedPolicies[i].policyId = id
                /\ \A j \in (i + 1)..Len(storedPolicies) :
                      storedPolicies[j].policyId # id],
            prev)]

\* setPolicies(prev => prev.map(existing => existing.policyId === id ? updated : existing))
ReplacePolicy(list, policyId, updatedPolicy) ==
    [i \in DOMAIN list |-> IF list[i].policyId = policyId THEN updatedPolicy ELSE list[i]]

\* what a policy card renders from
CardState(cs, policy) ==
    IF policy.policyId \in DOMAIN cs THEN cs[policy.policyId]
    ELSE [status |-> IF Has(policy, "status") THEN policy.status ELSE "active"]

IsClaimed(cs, policy) ==
    \/ CardState(cs, policy).status = "claimed"
    \/ (Has(policy, "status") /\ policy.status = "claimed")

\* the Claim Payout button is rendered and enabled
ClaimButtonEnabled(cs, policy) ==
    /\ CardState(cs, policy).status = "eligible"
    /\ ~IsClaimed(cs, policy)
    /\ CardState(cs, policy).status # "claiming"

\* the Check Claim button is rendered and enabled
CheckButtonEnabled(cs, policy) ==
    /\ ~(CardState(cs, policy).status = "eligible" /\ ~IsClaimed(cs, policy))
    /\ ~(CardState(cs, policy).status = "checking" \/ IsClaimed(cs, policy))

---------------------------------------------------------------------------
(* Initial states: the widget mounts on a localStorage that an earlier     *)
(* session may have left a policy in; the mount effect loads it.           *)

\* the snapshot an earlier eligibility check stored (price 200 -> 100)
StoredSnapshot(root) ==
    [dropPercentage |-> 5000, dropAmount |-> 100, currentPrice |-> 100,
     merkleRoot |-> root, proof |-> [root |-> root, currentPrice |-> 100],
     payoutAmount |-> 100]

EarlierPolicy ==
    generatePolicyData(<<"b", 1>>, ToDecString(1), CommitmentOf(1), ProductB1)

\* nothing stored; a policy never checked; a policy found eligible, with the
\* snapshot of either root, or with a snapshot stored without its proof
EarlierStores ==
    {<<>>, <<EarlierPolicy>>}
    \cup {<<Spread(EarlierPolicy, [status |-> "eligible",
                                    eligibility |-> StoredSnapshot(root)])>> :
            root \in OracleRoots}
    \cup {<<Spread(EarlierPolicy,
                   [status |-> "eligible",
                    eligibility |-> Without(StoredSnapshot(<<"0", "x", "1", "A">>),
                                            "proof")])>>}

\* two of the products data/products.json is created with
DEFAULT_PRODUCTS ==
    <<[id |-> <<"B", "0", "F", "6">>, name |-> <<"W">>, basePrice |-> 10180000],
      [id |-> <<"A", "I", "R">>, name |-> <<"A">>, basePrice |-> 249000000]>>

\* cachedArtifacts = null, and no fetch made
NoArtifacts == EmptyObject
ArtifactNames == {"wasm", "zkey", "verificationKey"}
NoFetches == [name \in ArtifactNames |-> 0]

InitWith(g) ==
    /\ gated = g
    /\ cachedArtifacts = NoArtifacts
    /\ fetches = NoFetches
    /\ catalog = DEFAULT_PRODUCTS
    /\ \E earlier \in EarlierStores :
          /\ store = IF earlier = <<>> THEN EmptyObject
                     ELSE SetItem(EmptyObject, PolicyKey(WalletAddress), earlier)
          /\ policies = earlier
          /\ claimStates = LoadClaimStates(earlier, EmptyObject)
          /\ IF earlier = <<>>
             THEN ledgerPolicies = EmptyObject
             ELSE \E buyer \in Buyers, claimed \in BOOLEAN :
                     ledgerPolicies =
                        [id \in {1} |-> [buyer |-> buyer, alreadyClaimed |-> claimed]]
    /\ ledgerRoot = 26
    /\ tasks = <<>>
    /\ txs = <<>>
    /\ receipts = <<>>
    /\ outcome = [kind |-> "mount", policyId |-> <<>>, pc |-> "done"]

Init == InitWith(TRUE)

InitCalls == InitWith(FALSE)

StatusOf(cs, policyId) ==
    IF policyId \in DOMAIN cs THEN cs[policyId].status ELSE "active"

\* a handler invocation in flight moves on
SetTask(t, fields) == [tasks EXCEPT ![t] = Spread(@, fields)]

\* a handler invocation returned: rejected by an early return, failed in the
\* catch block, or done
Returned(task, pc, fields) ==
    Spread([kind |-> task.kind, policyId |-> task.policyId, pc |-> pc], fields)

ReturnedTask == [pc |-> "returned"]

Return(t, pc, fields) ==
    /\ tasks' = [tasks EXCEPT ![t] = ReturnedTask]
    /\ outcome' = Returned(tasks[t], pc, fields)

InFlight(t) == t \in DOMAIN tasks /\ tasks[t].pc # "returned"

---------------------------------------------------------------------------
(* handleItemInsure, from the buyPolicy receipt on. *)

InsureConfirmed(hasEvent) ==
    LET n == Len(getPoliciesForAddress(store, WalletAddress)) + 1
        ledgerId == Cardinality(DOMAIN ledgerPolicies) + 1
        policyId == IF hasEvent THEN ToDecString(ledgerId) ELSE UnknownId
        policyData == generatePolicyData(<<"b", n>>, policyId, CommitmentOf(n), ProductB1)
        saved == savePolicyForAddress(store, WalletAddress, policyData)
    IN  /\ n <= MaxPolicies
        /\ ledgerPolicies' =
              [id \in DOMAIN ledgerPolicies \cup {ledgerId} |->
                  IF id = ledgerId
                  THEN [buyer |-> SignerAddress, alreadyClaimed |-> FALSE]
                  ELSE ledgerPolicies[id]]
        /\ store' = saved
        /\ policies' = getPoliciesForAddress(saved, WalletAddress)
        /\ claimStates' =
              [k \in DOMAIN claimStates \cup {policyId} |->
                  IF k = policyId THEN [status |-> "active"] ELSE claimStates[k]]
        /\ UNCHANGED <<tasks, ledgerRoot, txs, receipts, outcome, gated,
                       cachedArtifacts, fetches, catalog>>

---------------------------------------------------------------------------
(* handleCheckClaim. *)

\* the early returns before the status is set to checking
CheckPrecondition(policy) ==
    /\ Len(policy.purchaseDetails.productId) > 0
    /\ policy.purchaseDetails.productId # UnknownId
    /\ IsDecimalDigits(policy.policyId)

handleCheckClaim(i) ==
    /\ i \in DOMAIN policies
    /\ Len(tasks) < (IF gated THEN MaxTasks ELSE MaxCalls)
    /\ gated => CheckButtonEnabled(claimStates, policies[i])
    /\ LET policy == policies[i]
           id == policy.policyId
           checking == updateClaimState(claimStates, id, [status |-> "checking"], {"error"})
           task == [kind |-> "check", policyId |-> id, policy |-> policy,
                    pre |-> StatusOf(claimStates, id)]
       IN  IF ~CheckPrecondition(policy)
           THEN /\ tasks' = Append(tasks, ReturnedTask)
                /\ outcome' = Returned(task, "rejected", EmptyObject)
                /\ UNCHANGED claimStates
           ELSE IF policy.purchaseDetails.invoicePrice <= 0
           THEN /\ claimStates' = updateClaimState(checking, id,
                                     [status |-> "error", error |-> "InvalidPrice"], {})
                /\ tasks' = Append(tasks, ReturnedTask)
                /\ outcome' = Returned(task, "failed", [error |-> "InvalidPrice"])
           ELSE /\ claimStates' = checking
                /\ tasks' = Append(tasks, Spread(task, [pc |-> "prices"]))
                /\ UNCHANGED outcome
    /\ UNCHANGED <<store, policies, ledgerRoot, ledgerPolicies, txs, receipts, gated,
                   cachedArtifacts, fetches, catalog>>

\* getOraclePrices resolved and the catalog holds the product
CheckPrices(t) ==
    /\ InFlight(t)
    /\ tasks[t].kind = "check" /\ tasks[t].pc = "prices"
    /\ \E root \in OracleRoots, price \in OraclePrices :
          tasks' = SetTask(t, [pc |-> "proof", merkleRoot |-> root, currentPrice |-> price])
    /\ UNCHANGED <<store, policies, claimStates, ledgerRoot, ledgerPolicies, txs,
                   receipts, outcome, gated,
                   cachedArtifacts, fetches, catalog>>

\* the catch block marking the stored record as well
CheckFailPersisting(t) ==
    /\ InFlight(t)
    /\ tasks[t].kind = "check" /\ tasks[t].pc \in {"prices", "proof"}
    /\ \E message \in IF tasks[t].pc = "prices"
                     THEN {"RequestFailed", "ProductNotFound"}
                     ELSE {"RequestFailed"} :
          /\ claimStates' = updateClaimState(claimStates, tasks[t].policyId,
                               [status |-> "error", error |-> message], {})
          /\ Return(t, "failed", [error |-> message])
    /\ store' = updatePolicyForAddress(store, WalletAddress, tasks[t].policyId,
                                       [kind |-> "markIneligible"]).store
    /\ UNCHANGED <<policies, ledgerRoot, ledgerPolicies, txs, receipts, gated,
                   cachedArtifacts, fetches, catalog>>

\* a request failed, or no catalog entry matched: the catch block
CheckFail(t) ==
    /\ InFlight(t)
    /\ tasks[t].kind = "check" /\ tasks[t].pc \in {"prices", "proof"}
    /\ \E message \in IF tasks[t].pc = "prices"
                     THEN {"RequestFailed", "ProductNotFound"}
                     ELSE {"RequestFailed"} :
          /\ claimStates' = updateClaimState(claimStates, tasks[t].policyId,
                               [status |-> "error", error |-> message], {})
          /\ Return(t, "failed", [error |-> message])
    /\ UNCHANGED <<store, policies, ledgerRoot, ledgerPolicies, txs, receipts, gated,
                   cachedArtifacts, fetches, catalog>>

\* the rest of checkEligibility throwing when the proof's root is not the
\* root the catalog reported
CheckDoneMatching(t) ==
    /\ InFlight(t)
    /\ tasks[t].kind = "check" /\ tasks[t].pc = "proof"
    /\ \E proofRoot \in OracleRoots :
          LET policy == tasks[t].policy
              id == policy.policyId
              eligibility ==
                  checkEligibility(policy.purchaseDetails.invoicePrice,
                                   tasks[t].currentPrice, tasks[t].merkleRoot,
                                   [root |-> proofRoot,
                                    currentPrice |-> tasks[t].currentPrice],
                                   DEFAULT_DROP_THRESHOLD)
              status == IF eligibility.eligible THEN "eligible" ELSE "ineligible"
              snapshot ==
                  [dropPercentage |-> eligibility.dropPercentage,
                   dropAmount |-> eligibility.dropAmount,
                   currentPrice |-> eligibility.currentPrice,
                   merkleRoot |-> eligibility.merkleRoot,
                   proof |-> eligibility.proof,
                   payoutAmount |-> eligibility.payoutAmount]
              merged ==
                  mergePolicyForAddress(store, WalletAddress, id,
                      [status |-> status,
                       purchaseDetails |->
                          [policy.purchaseDetails EXCEPT
                              !.productId =
                                  normalizeProductIdOr(policy.purchaseDetails.productId)],
                       eligibility |-> snapshot])
          IN  IF proofRoot # tasks[t].merkleRoot
              THEN /\ claimStates' = updateClaimState(claimStates, id,
                                        [status |-> "error", error |-> "RootMismatch"], {})
                   /\ Return(t, "failed", [error |-> "RootMismatch"])
                   /\ UNCHANGED <<store, policies>>
              ELSE /\ claimStates' =
                         updateClaimState(claimStates, id,
                            [status |-> status,
                             eligibility |->
                                [dropPercentage |-> eligibility.dropPercentage,
                                 dropAmountMicros |-> eligibility.dropAmount,
                                 currentPriceMicros |-> eligibility.currentPrice,
                                 merkleRoot |-> eligibility.merkleRoot,
                                 proof |-> eligibility.proof,
                                 payoutAmount |-> eligibility.payoutAmount]], {})
                   /\ store' = merged.store
                   /\ policies' = IF merged.found
                                  THEN ReplacePolicy(policies, id, merged.policy)
                                  ELSE policies
                   /\ Return(t, "done", [rewrote |-> merged.store # store])
    /\ UNCHANGED <<ledgerRoot, ledgerPolicies, txs, receipts, gated,
                   cachedArtifacts, fetches, catalog>>

\* getMerkleProof resolved: the rest of checkEligibility and of handleCheckClaim
CheckDone(t) ==
    /\ InFlight(t)
    /\ tasks[t].kind = "check" /\ tasks[t].pc = "proof"
    /\ \E proofRoot \in OracleRoots :
          LET policy == tasks[t].policy
              id == policy.policyId
              eligibility ==
                  checkEligibility(policy.purchaseDetails.invoicePrice,
                                   tasks[t].currentPrice, tasks[t].merkleRoot,
                                   [root |-> proofRoot,
                                    currentPrice |-> tasks[t].currentPrice],
                                   DEFAULT_DROP_THRESHOLD)
              status == IF eligibility.eligible THEN "eligible" ELSE "ineligible"
              nextPurchaseDetails ==
                  [policy.purchaseDetails EXCEPT
                      !.productId = normalizeProductIdOr(policy.purchaseDetails.productId)]
              merged ==
                  mergePolicyForAddress(store, WalletAddress, id,
                      [status |-> status,
                       purchaseDetails |-> nextPurchaseDetails,
                       eligibility |->
                          [dropPercentage |-> eligibility.dropPercentage,
                           dropAmount |-> eligibility.dropAmount,
                           currentPrice |-> eligibility.currentPrice,
                           merkleRoot |-> eligibility.merkleRoot,
                           proof |-> eligibility.proof,
                           payoutAmount |-> eligibility.payoutAmount]])
          IN  /\ claimStates' =
                    updateClaimState(claimStates, id,
                       [status |-> status,
                        eligibility |->
                           [dropPercentage |-> eligibility.dropPercentage,
                            dropAmountMicros |-> eligibility.dropAmount,
                            currentPriceMicros |-> eligibility.currentPrice,
                            merkleRoot |-> eligibility.merkleRoot,
                            proof |-> eligibility.proof,
                            payoutAmount |-> eligibility.payoutAmount]], {})
              /\ store' = merged.store
              /\ policies' = IF merged.found
                             THEN ReplacePolicy(policies, id, merged.policy)
                             ELSE policies
              /\ Return(t, "done", [rewrote |-> merged.store # store])
    /\ UNCHANGED <<ledgerRoot, ledgerPolicies, txs, receipts, gated,
                   cachedArtifacts, fetches, catalog>>

---------------------------------------------------------------------------
(* handleSubmitClaim. *)

\* the early returns with the test of the eligibility snapshot left out
SubmitPreconditionIdOnly(cs, policy) ==
    IsDecimalDigits(policy.policyId)

\* the early returns before the status is set to claiming
SubmitPrecondition(cs, policy) ==
    /\ policy.policyId \in DOMAIN cs
    /\ Has(cs[policy.policyId], "eligibility")
    /\ Has(cs[policy.policyId].eligibility, "proof")
    /\ IsDecimalDigits(policy.policyId)

handleSubmitClaim(i) ==
    /\ i \in DOMAIN policies
    /\ Len(tasks) < (IF gated THEN MaxTasks ELSE MaxCalls)
    /\ gated => ClaimButtonEnabled(claimStates, policies[i])
    /\ LET policy == policies[i]
           id == policy.policyId
           task == [kind |-> "submit", policyId |-> id, policy |-> policy,
                    pre |-> StatusOf(claimStates, id)]
       IN  IF ~SubmitPrecondition(claimStates, policy)
           THEN /\ tasks' = Append(tasks, ReturnedTask)
                /\ outcome' = Returned(task, "rejected", EmptyObject)
                /\ UNCHANGED claimStates
           ELSE /\ claimStates' = updateClaimState(claimStates, id,
                                     [status |-> "claiming"], {"error"})
                /\ tasks' = Append(tasks,
                      Spread(task, [pc |-> "proving", claimState |-> claimStates[id]]))
                /\ UNCHANGED outcome
    /\ UNCHANGED <<store, policies, ledgerRoot, ledgerPolicies, txs, receipts, gated,
                   cachedArtifacts, fetches, catalog>>

\* generateClaimProof resolved; the two ledger reads are issued
SubmitProved(t) ==
    /\ InFlight(t)
    /\ tasks[t].kind = "submit" /\ tasks[t].pc = "proving"
    /\ tasks' = SetTask(t, [pc |-> "reading"])
    /\ UNCHANGED <<store, policies, claimStates, ledgerRoot, ledgerPolicies, txs,
                   receipts, outcome, gated,
                   cachedArtifacts, fetches, catalog>>

\* vault.priceMerkleRoot() answered with the root the vault holds
SubmitReadRoot(t) ==
    /\ InFlight(t)
    /\ tasks[t].kind = "submit" /\ tasks[t].pc = "reading"
    /\ ~Has(tasks[t], "onChainRoot")
    /\ tasks' = SetTask(t, [onChainRoot |-> ledgerRoot])
    /\ UNCHANGED <<store, policies, claimStates, ledgerRoot, ledgerPolicies, txs,
                   receipts, outcome, gated,
                   cachedArtifacts, fetches, catalog>>

\* vault.policies(BigInt(policy.policyId)) answered
SubmitReadPolicy(t) ==
    /\ InFlight(t)
    /\ tasks[t].kind = "submit" /\ tasks[t].pc = "reading"
    /\ ~Has(tasks[t], "storedPolicy")
    /\ tasks' = SetTask(t, [storedPolicy |->
                   LedgerRecord(ledgerPolicies, BigIntOfString(tasks[t].policyId))])
    /\ UNCHANGED <<store, policies, claimStates, ledgerRoot, ledgerPolicies, txs,
                   receipts, outcome, gated,
                   cachedArtifacts, fetches, catalog>>

\* the checks with the comparison of the roots left out
VerifyLedgerNoRoot(merkleRoot, onChainRoot, storedPolicy, walletAddress) ==
    IF ToLowerCase(storedPolicy.buyer) # ToLowerCase(walletAddress)
    THEN "OtherWallet"
    ELSE IF storedPolicy.alreadyClaimed THEN "AlreadyClaimed"
    ELSE "ok"

\* the checks with the comparison of the buyer left out
VerifyLedgerNoBuyer(merkleRoot, onChainRoot, storedPolicy, walletAddress) ==
    IF ToLowerCase(onChainRoot) # ToLowerCase(formatMerkleRoot(merkleRoot))
    THEN "StaleRoot"
    ELSE IF storedPolicy.alreadyClaimed THEN "AlreadyClaimed"
    ELSE "ok"

\* the checks with the test of alreadyClaimed left out
VerifyLedgerNoClaimed(merkleRoot, onChainRoot, storedPolicy, walletAddress) ==
    IF ToLowerCase(onChainRoot) # ToLowerCase(formatMerkleRoot(merkleRoot))
    THEN "StaleRoot"
    ELSE IF ToLowerCase(storedPolicy.buyer) # ToLowerCase(walletAddress)
    THEN "OtherWallet"
    ELSE "ok"

\* the three checks on what the ledger answered: the error thrown, or "ok";
\* onChainRoot is the bytes32 the vault returned, as lower-case hex
VerifyLedger(merkleRoot, onChainRoot, storedPolicy, walletAddress) ==
    IF ToLowerCase(onChainRoot) # ToLowerCase(formatMerkleRoot(merkleRoot))
    THEN "StaleRoot"
    ELSE IF ToLowerCase(storedPolicy.buyer) # ToLowerCase(walletAddress)
    THEN "OtherWallet"
    ELSE IF storedPolicy.alreadyClaimed THEN "AlreadyClaimed"
    ELSE "ok"

\* claimPayout sent as soon as the proof is there, the reads not awaited
SubmitVerifyUnread(t) ==
    /\ InFlight(t)
    /\ tasks[t].kind = "submit" /\ tasks[t].pc = "reading"
    /\ txs' = Append(txs, [policyId |-> BigIntOfString(tasks[t].policyId),
                           status |-> "pending"])
    /\ tasks' = SetTask(t, [pc |-> "waiting", tx |-> Len(txs) + 1])
    /\ UNCHANGED <<store, policies, claimStates, outcome, ledgerRoot, ledgerPolicies,
                   receipts, gated, cachedArtifacts, fetches, catalog>>

\* both reads answered: the checks, then vault.claimPayout(...) is sent
SubmitVerify(t) ==
    /\ InFlight(t)
    /\ tasks[t].kind = "submit" /\ tasks[t].pc = "reading"
    /\ Has(tasks[t], "onChainRoot") /\ Has(tasks[t], "storedPolicy")
    /\ LET verdict == VerifyLedger(tasks[t].claimState.eligibility.merkleRoot,
                                   toHex32(tasks[t].onChainRoot),
                                   tasks[t].storedPolicy, SignerAddress)
           id == tasks[t].policyId
       IN  \E sent \in BOOLEAN :
              IF verdict # "ok" \/ ~sent
              THEN LET message == IF verdict # "ok" THEN verdict
                                  ELSE "TransactionFailed"
                   IN  /\ claimStates' = updateClaimState(claimStates, id,
                                            [status |-> "error", error |-> message], {})
                       /\ Return(t, "failed", [error |-> message])
                       /\ UNCHANGED txs
              ELSE /\ txs' = Append(txs, [policyId |-> BigIntOfString(id),
                                          status |-> "pending"])
                   /\ tasks' = SetTask(t, [pc |-> "waiting", tx |-> Len(txs) + 1])
                   /\ UNCHANGED <<claimStates, outcome>>
    /\ UNCHANGED <<store, policies, ledgerRoot, ledgerPolicies, receipts, gated,
                   cachedArtifacts, fetches, catalog>>

\* the catch block writing the failure to the store as well
SubmitFailPersisting(t) ==
    /\ InFlight(t)
    /\ tasks[t].kind = "submit"
    /\ tasks[t].pc \in {"proving", "reading", "waiting"}
    /\ claimStates' = updateClaimState(claimStates, tasks[t].policyId,
                         [status |-> "error", error |-> "RequestFailed"], {})
    /\ store' = mergePolicyForAddress(store, WalletAddress, tasks[t].policyId,
                                      [status |-> "active"]).store
    /\ Return(t, "failed", [error |-> "RequestFailed"])
    /\ UNCHANGED <<policies, ledgerRoot, ledgerPolicies, txs, receipts, gated,
                   cachedArtifacts, fetches, catalog>>

\* a rejected promise (the prover, a ledger read, the wait for the receipt):
\* the catch block
SubmitFail(t) ==
    /\ InFlight(t)
    /\ tasks[t].kind = "submit"
    /\ \/ tasks[t].pc = "proving"
       \/ /\ tasks[t].pc = "reading"
          /\ ~(Has(tasks[t], "onChainRoot") /\ Has(tasks[t], "storedPolicy"))
       \/ tasks[t].pc = "waiting" /\ txs[tasks[t].tx].status # "success"
    /\ LET message == CASE tasks[t].pc = "proving" -> "ProofFailed"
                        [] tasks[t].pc = "reading" -> "RequestFailed"
                        [] OTHER -> "TransactionFailed"
       IN  /\ claimStates' = updateClaimState(claimStates, tasks[t].policyId,
                                [status |-> "error", error |-> message], {})
           /\ Return(t, "failed", [error |-> message])
    /\ UNCHANGED <<store, policies, ledgerRoot, ledgerPolicies, txs, receipts, gated,
                   cachedArtifacts, fetches, catalog>>

\* tx.wait() returned the receipt: the claim state, the store and the policy list
SubmitReceipt(t) ==
    /\ InFlight(t)
    /\ tasks[t].kind = "submit" /\ tasks[t].pc = "waiting"
    /\ txs[tasks[t].tx].status = "success"
    /\ LET policy == tasks[t].policy
           id == policy.policyId
           snapshot == tasks[t].claimState.eligibility
           hash == <<"p", tasks[t].tx>>
           merged ==
               mergePolicyForAddress(store, WalletAddress, id,
                   [status |-> "claimed",
                    claimTxHash |-> hash,
                    eligibility |->
                       Spread(IF Has(policy, "eligibility") THEN policy.eligibility
                              ELSE EmptyObject,
                              [dropPercentage |-> snapshot.dropPercentage,
                               dropAmount |-> snapshot.dropAmountMicros,
                               currentPrice |-> snapshot.currentPriceMicros,
                               merkleRoot |-> snapshot.merkleRoot,
                               proof |-> snapshot.proof,
                               payoutAmount |-> snapshot.payoutAmount])])
       IN  /\ claimStates' = updateClaimState(claimStates, id,
                                [status |-> "claimed", txHash |-> hash], {})
           /\ store' = merged.store
           /\ policies' = IF merged.found
                          THEN ReplacePolicy(policies, id, merged.policy)
                          ELSE getPoliciesForAddress(store, WalletAddress)
           /\ receipts' = Append(receipts, [policyId |-> id, hash |-> hash,
                                            stored |-> merged.found])
           /\ Return(t, "done", [receipt |-> hash])
    /\ UNCHANGED <<ledgerRoot, ledgerPolicies, txs, gated,
                   cachedArtifacts, fetches, catalog>>

---------------------------------------------------------------------------
(* The vault and the oracle, outside the widget. *)

\* the oracle publishes a new price root on the vault
PublishRoot ==
    /\ \E root \in LedgerRoots \ {ledgerRoot} : ledgerRoot' = root
    /\ UNCHANGED <<store, policies, claimStates, tasks, ledgerPolicies, txs,
                   receipts, outcome, gated,
                   cachedArtifacts, fetches, catalog>>

\* a claimPayout transaction is mined: it pays once per policy, or reverts
LedgerMine(k) ==
    /\ k \in DOMAIN txs
    /\ txs[k].status = "pending"
    /\ LET record == LedgerRecord(ledgerPolicies, txs[k].policyId)
       IN  \E accepted \in BOOLEAN :
              IF /\ accepted
                 /\ ~record.alreadyClaimed
                 /\ txs[k].policyId \in DOMAIN ledgerPolicies
              THEN /\ txs' = [txs EXCEPT ![k].status = "success"]
                   /\ ledgerPolicies' =
                         [ledgerPolicies EXCEPT ![txs[k].policyId].alreadyClaimed = TRUE]
              ELSE /\ txs' = [txs EXCEPT ![k].status = "reverted"]
                   /\ UNCHANGED ledgerPolicies
    /\ UNCHANGED <<store, policies, claimStates, tasks, ledgerRoot, receipts, outcome, gated,
                   cachedArtifacts, fetches, catalog>>

---------------------------------------------------------------------------

Next ==
    \/ \E hasEvent \in BOOLEAN : InsureConfirmed(hasEvent)
    \/ \E i \in 1..MaxPolicies : handleCheckClaim(i)
    \/ \E t \in 1..MaxTasks : CheckPrices(t)
    \/ \E t \in 1..MaxTasks : CheckFail(t)
    \/ \E t \in 1..MaxTasks : CheckDone(t)
    \/ \E i \in 1..MaxPolicies : handleSubmitClaim(i)
    \/ \E t \in 1..MaxTasks : SubmitProved(t)
    \/ \E t \in 1..MaxTasks : SubmitReadRoot(t)
    \/ \E t \in 1..MaxTasks : SubmitReadPolicy(t)
    \/ \E t \in 1..MaxTasks : SubmitVerify(t)
    \/ \E t \in 1..MaxTasks : SubmitFail(t)
    \/ \E t \in 1..MaxTasks : SubmitReceipt(t)
    \/ PublishRoot
    \/ \E k \in 1..MaxTasks : LedgerMine(k)

\* the widget as rendered: handlers run from the enabled buttons only
Spec == Init /\ [][Next]_vars

\* the handlers as functions: any rendered policy, whatever its claim state
SpecCalls == InitCalls /\ [][Next]_vars

---------------------------------------------------------------------------
(* Eligibility checks on a wallet with two stored policies, each active,   *)
(* eligible or claimed.  The setItem of the merge may throw (the quota of  *)
(* localStorage): mergePolicyForAddress then returns null.                 *)

CheckStatuses == {"active", "eligible", "claimed"}

\* the stored record of the n-th purchase in the given status
CheckRecord(n, status) ==
    LET policyData == generatePolicyData(<<"b", n>>, ToDecString(n),
                                         CommitmentOf(n), ProductB1)
    IN  CASE status = "active" -> policyData
          [] status = "eligible" ->
                Spread(policyData, [status |-> "eligible",
                                    eligibility |-> StoredSnapshot(<<"4", "3">>)])
          [] OTHER ->
                Spread(policyData, [status |-> "claimed",
                                    eligibility |-> StoredSnapshot(<<"4", "3">>),
                                    claimTxHash |-> <<"p", n>>,
                                    claimedAt |-> n])

InitCheck ==
    /\ gated = FALSE
    /\ cachedArtifacts = NoArtifacts
    /\ fetches = NoFetches
    /\ catalog = DEFAULT_PRODUCTS
    /\ \E first \in CheckStatuses, second \in CheckStatuses :
          LET stored == <<CheckRecord(1, first), CheckRecord(2, second)>>
          IN  /\ store = SetItem(EmptyObject, PolicyKey(WalletAddress), stored)
              /\ policies = stored
              /\ claimStates = LoadClaimStates(stored, EmptyObject)
    /\ ledgerPolicies = EmptyObject
    /\ ledgerRoot = 26
    /\ tasks = <<>>
    /\ txs = <<>>
    /\ receipts = <<>>
    /\ outcome = [kind |-> "mount", policyId |-> <<>>, pc |-> "done"]

\* CheckDone when localStorage.setItem throws: the catch of
\* updatePolicyForAddress returns null and the handler goes on
CheckDoneUnsaved(t) ==
    /\ InFlight(t)
    /\ tasks[t].kind = "check" /\ tasks[t].pc = "proof"
    /\ \E proofRoot \in OracleRoots :
          LET policy == tasks[t].policy
              id == policy.policyId
              eligibility ==
                  checkEligibility(policy.purchaseDetails.invoicePrice,
                                   tasks[t].currentPrice, tasks[t].merkleRoot,
                                   [root |-> proofRoot,
                                    currentPrice |-> tasks[t].currentPrice],
                                   DEFAULT_DROP_THRESHOLD)
              status == IF eligibility.eligible THEN "eligible" ELSE "ineligible"
          IN  /\ claimStates' =
                    updateClaimState(claimStates, id,
                       [status |-> status,
                        eligibility |->
                           [dropPercentage |-> eligibility.dropPercentage,
                            dropAmountMicros |-> eligibility.dropAmount,
                            currentPriceMicros |-> eligibility.currentPrice,
                            merkleRoot |-> eligibility.merkleRoot,
                            proof |-> eligibility.proof,
                            payoutAmount |-> eligibility.payoutAmount]], {})
              /\ Return(t, "done", [rewrote |-> FALSE, unsaved |-> TRUE])
    /\ UNCHANGED <<store, policies, ledgerRoot, ledgerPolicies, txs, receipts, gated,
                   cachedArtifacts, fetches, catalog>>

NextCheck ==
    \/ \E i \in DOMAIN policies : handleCheckClaim(i)
    \/ \E t \in DOMAIN tasks : CheckPrices(t)
    \/ \E t \in DOMAIN tasks : CheckFail(t)
    \/ \E t \in DOMAIN tasks : CheckDone(t)
    \/ \E t \in DOMAIN tasks : CheckDoneUnsaved(t)

SpecCheck == InitCheck /\ [][NextCheck]_vars

---------------------------------------------------------------------------
(* The policy store called directly: savePolicyForAddress,                 *)
(* updatePolicyForAddress and mergePolicyForAddress with arguments of      *)
(* their declared types.                                                   *)

\* the wallet address as the wallet gives it, and in lower case
StoreAddresses == {WalletAddress, ToLowerCase(WalletAddress)}
StoreHashes == {<<"b", 1>>, <<"b", 2>>}
StoreIds == {ToDecString(1), ToDecString(2)}

\* values of Partial<PolicyData> passed as updates
StoreUpdates ==
    {[status |-> "eligible", eligibility |-> StoredSnapshot(<<"4", "3">>)],
     [status |-> "claimed", claimTxHash |-> <<"p", 1>>],
     [eligibility |-> [currentPrice |-> 190]]}
    \cup {[transactionHash |-> h] : h \in StoreHashes}

\* updaters passed to updatePolicyForAddress
StoreUpdaters == {[kind |-> "markIneligible"], [kind |-> "dropEligibility"]}

InitStore ==
    /\ store = EmptyObject
    /\ policies = <<>>
    /\ claimStates = EmptyObject
    /\ tasks = <<>>
    /\ ledgerRoot = 26
    /\ ledgerPolicies = EmptyObject
    /\ txs = <<>>
    /\ receipts = <<>>
    /\ outcome = [kind |-> "mount", policyId |-> <<>>, pc |-> "done"]
    /\ gated = FALSE
    /\ cachedArtifacts = NoArtifacts
    /\ fetches = NoFetches
    /\ catalog = DEFAULT_PRODUCTS

\* the record a direct caller saves
StoreRecord(transactionHash, policyId) ==
    generatePolicyData(transactionHash, policyId,
                       CommitmentOf(ParseDec(policyId)), ProductB1)

StoreSave(walletAddress, transactionHash, policyId) ==
    /\ Len(getPoliciesForAddress(store, walletAddress)) < MaxStored
    /\ store' = savePolicyForAddress(store, walletAddress,
                                     StoreRecord(transactionHash, policyId))
    /\ outcome' = [kind |-> "save", policyId |-> policyId,
                   transactionHash |-> transactionHash,
                   pc |-> IF store' = store THEN "skipped" ELSE "done"]
    /\ UNCHANGED <<policies, claimStates, tasks, ledgerRoot, ledgerPolicies, txs,
                   receipts, gated,
                   cachedArtifacts, fetches, catalog>>

StoreUpdate(walletAddress, policyId, updater) ==
    /\ store' = updatePolicyForAddress(store, walletAddress, policyId, updater).store
    /\ UNCHANGED <<policies, claimStates, tasks, ledgerRoot, ledgerPolicies, txs,
                   receipts, outcome, gated,
                   cachedArtifacts, fetches, catalog>>

StoreMerge(walletAddress, policyId, updates) ==
    /\ store' = mergePolicyForAddress(store, walletAddress, policyId, updates).store
    /\ UNCHANGED <<policies, claimStates, tasks, ledgerRoot, ledgerPolicies, txs,
                   receipts, outcome, gated,
                   cachedArtifacts, fetches, catalog>>

NextStore ==
    \/ \E a \in StoreAddresses, h \in StoreHashes, id \in StoreIds : StoreSave(a, h, id)
    \/ \E a \in StoreAddresses, id \in StoreIds, updater \in StoreUpdaters :
          StoreUpdate(a, id, updater)
    \/ \E a \in StoreAddresses, id \in StoreIds, updates \in StoreUpdates :
          StoreMerge(a, id, updates)

\* the store under any sequence of calls
SpecStore == InitStore /\ [][NextStore]_vars

---------------------------------------------------------------------------
(* Every function of the store called directly, for policies and for      *)
(* commitments, under the two spellings of the wallet address and under   *)
(* another address.  `tasks` is the log of the calls made, each with what  *)
(* it returned.                                                            *)

MaxWalletCalls == 3

WalletAddresses == StoreAddresses \cup {OtherAddress}

\* the policyId of the records saved
WalletSavedId == ToDecString(1)

WalletUpdates ==
    {[status |-> "eligible", eligibility |-> StoredSnapshot(<<"4", "3">>)],
     [eligibility |-> [currentPrice |-> 190]],
     [transactionHash |-> <<"b", 2>>]}

\* the commitment a direct caller saves
WalletCommitment == CommitmentOf(1)

\* the store after the call, and what the call returns
ApplyCall(call, st) ==
    CASE call.kind = "get" ->
            [store |-> st, result |-> getPoliciesForAddress(st, call.address)]
      [] call.kind = "save" ->
            [store |-> savePolicyForAddress(st, call.address,
                          StoreRecord(call.transactionHash, call.policyId)),
             result |-> <<>>]
      [] call.kind = "update" ->
            LET r == updatePolicyForAddress(st, call.address, call.policyId,
                                            call.updater)
            IN  [store |-> r.store,
                 result |-> [found |-> r.found, policy |-> r.policy]]
      [] call.kind = "merge" ->
            LET r == mergePolicyForAddress(st, call.address, call.policyId,
                                           call.updates)
            IN  [store |-> r.store,
                 result |-> [found |-> r.found, policy |-> r.policy]]
      [] call.kind = "getCommitments" ->
            [store |-> st, result |-> getCommitmentsForAddress(st, call.address)]
      [] call.kind = "saveCommitment" ->
            [store |-> saveCommitmentForAddress(st, call.address, call.commitmentData),
             result |-> <<>>]
      [] OTHER ->
            [store |-> clearPoliciesForAddress(st, call.address), result |-> <<>>]

InitWallets == InitStore

WalletCall(call) ==
    /\ Len(tasks) < MaxWalletCalls
    /\ LET r == ApplyCall(call, store)
       IN  /\ store' = r.store
           /\ tasks' = Append(tasks, Spread(call, [result |-> r.result]))
           /\ outcome' = [kind |-> call.kind, policyId |-> <<>>, pc |-> "done"]
    /\ UNCHANGED <<policies, claimStates, ledgerRoot, ledgerPolicies, txs,
                   receipts, gated,
                   cachedArtifacts, fetches, catalog>>

WalletGet(walletAddress) ==
    WalletCall([kind |-> "get", address |-> walletAddress])

WalletSave(walletAddress, transactionHash) ==
    WalletCall([kind |-> "save", address |-> walletAddress,
                transactionHash |-> transactionHash, policyId |-> WalletSavedId])

WalletUpdate(walletAddress, policyId, updater) ==
    WalletCall([kind |-> "update", address |-> walletAddress,
                policyId |-> policyId, updater |-> updater])

WalletMerge(walletAddress, policyId, updates) ==
    WalletCall([kind |-> "merge", address |-> walletAddress,
                policyId |-> policyId, updates |-> updates])

WalletGetCommitments(walletAddress) ==
    WalletCall([kind |-> "getCommitments", address |-> walletAddress])

WalletSaveCommitment(walletAddress) ==
    WalletCall([kind |-> "saveCommitment", address |-> walletAddress,
                commitmentData |-> WalletCommitment])

WalletClear(walletAddress) ==
    WalletCall([kind |-> "clear", address |-> walletAddress])

NextWallets ==
    \/ \E a \in WalletAddresses : WalletGet(a)
    \/ \E a \in WalletAddresses, h \in StoreHashes : WalletSave(a, h)
    \/ \E a \in WalletAddresses, id \in StoreIds, updater \in StoreUpdaters :
          WalletUpdate(a, id, updater)
    \/ \E a \in WalletAddresses, id \in StoreIds, updates \in WalletUpdates :
          WalletMerge(a, id, updates)
    \/ \E a \in WalletAddresses : WalletGetCommitments(a)
    \/ \E a \in WalletAddresses : WalletSaveCommitment(a)
    \/ \E a \in WalletAddresses : WalletClear(a)

\* the store of several wallets under any sequence of calls
SpecWallets == InitWallets /\ [][NextWallets]_vars

---------------------------------------------------------------------------
(* handleItemInsure from the click on: the commitment, the allowance and   *)
(* the approval, the buyPolicy transaction and its receipt.  Every await   *)
(* is a step, and every one may reject.  In this specification `receipts`  *)
(* holds the buyPolicy receipts the handler obtained.                      *)

MaxInsures == 2

\* the premium of the commitment and the allowances the token may report
InsurePremium == 3
Allowances == {0, 3}

InitInsure == InitStore

handleItemInsure(connected) ==
    /\ Len(tasks) < MaxInsures
    /\ IF connected
       THEN /\ tasks' = Append(tasks, [kind |-> "insure", policyId |-> <<>>,
                                       pc |-> "generating"])
            /\ UNCHANGED outcome
       ELSE /\ tasks' = Append(tasks, ReturnedTask)
            /\ outcome' = [kind |-> "insure", policyId |-> <<>>, pc |-> "alert"]
    /\ UNCHANGED <<store, policies, claimStates, ledgerRoot, ledgerPolicies, txs,
                   receipts, gated,
                   cachedArtifacts, fetches, catalog>>

\* the same catch, with the policy of the transaction sent saved on the way
InsureFailSaving(t, pc) ==
    /\ InFlight(t)
    /\ tasks[t].kind = "insure"
    /\ tasks[t].pc = pc
    /\ Return(t, "zkError", [failedAt |-> pc])
    /\ store' = savePolicyForAddress(store, WalletAddress,
                   generatePolicyData(<<"b", t>>, UnknownId, CommitmentOf(t), ProductB1))
    /\ UNCHANGED <<policies, claimStates, ledgerRoot, ledgerPolicies, txs,
                   receipts, gated,
                   cachedArtifacts, fetches, catalog>>

\* the catch of handleItemInsure: setZkError(message)
InsureFail(t, pc) ==
    /\ InFlight(t)
    /\ tasks[t].kind = "insure"
    /\ tasks[t].pc = pc
    /\ Return(t, "zkError", [failedAt |-> pc])
    /\ UNCHANGED <<store, policies, claimStates, ledgerRoot, ledgerPolicies, txs,
                   receipts, gated,
                   cachedArtifacts, fetches, catalog>>

InsureStep(t, from, to) ==
    /\ InFlight(t)
    /\ tasks[t].kind = "insure"
    /\ tasks[t].pc = from
    /\ tasks' = [tasks EXCEPT ![t].pc = to]
    /\ UNCHANGED <<store, policies, claimStates, ledgerRoot, ledgerPolicies, txs,
                   receipts, outcome, gated,
                   cachedArtifacts, fetches, catalog>>

\* buildCommitment resolved with a commitment
InsureCommitmentBuilt(t) == InsureStep(t, "generating", "allowance")

\* buildCommitment rejected, or resolved without a commitment
InsureCommitmentFails(t) == InsureFail(t, "generating")

\* getInsuranceVaultContractWithSigner, getPaymentTokenContract or getAddress rejected
InsureContractsFail(t) == InsureFail(t, "allowance")

\* tokenContract.allowance: a rejection reads as an allowance of 0
InsureAllowance(t, allowed, currentAllowance) ==
    InsureStep(t, "allowance",
               IF (IF allowed THEN currentAllowance ELSE 0) < InsurePremium
               THEN "approving" ELSE "purchasing")

\* approve sent and approveTx.wait() resolved
InsureApproved(t) == InsureStep(t, "approving", "purchasing")

\* approve or approveTx.wait() rejected
InsureApproveFails(t) == InsureFail(t, "approving")

\* vaultContract.buyPolicy resolved with the transaction
InsureBuySent(t) == InsureStep(t, "purchasing", "waiting")

\* vaultContract.buyPolicy rejected
InsureBuyFails(t) == InsureFail(t, "purchasing")

\* tx.wait() rejected, or resolved with null
InsureWaitFails(t) == InsureFail(t, "waiting")

\* tx.wait() resolved with the receipt: the rest of the handler
InsureReceipt(t, hasEvent) ==
    LET ledgerId == Cardinality(DOMAIN ledgerPolicies) + 1
        policyId == IF hasEvent THEN ToDecString(ledgerId) ELSE UnknownId
        receipt == [hash |-> <<"b", t>>]
        commitmentData == CommitmentOf(t)
        policyData == generatePolicyData(receipt.hash, policyId, commitmentData,
                                         ProductB1)
        saved == saveCommitmentForAddress(
                     savePolicyForAddress(store, WalletAddress, policyData),
                     WalletAddress, commitmentData)
    IN  /\ InFlight(t)
        /\ tasks[t].kind = "insure"
        /\ tasks[t].pc = "waiting"
        /\ ledgerPolicies' =
              [id \in DOMAIN ledgerPolicies \cup {ledgerId} |->
                  IF id = ledgerId
                  THEN [buyer |-> SignerAddress, alreadyClaimed |-> FALSE]
                  ELSE ledgerPolicies[id]]
        /\ receipts' = Append(receipts, receipt)
        /\ store' = saved
        /\ policies' = getPoliciesForAddress(saved, WalletAddress)
        /\ claimStates' =
              [k \in DOMAIN claimStates \cup {policyId} |->
                  IF k = policyId THEN [status |-> "active"] ELSE claimStates[k]]
        /\ Return(t, "success", [transactionHash |-> receipt.hash])
        /\ UNCHANGED <<ledgerRoot, txs, gated,
                       cachedArtifacts, fetches, catalog>>

NextInsure ==
    \/ \E connected \in BOOLEAN : handleItemInsure(connected)
    \/ \E t \in DOMAIN tasks : InsureCommitmentBuilt(t)
    \/ \E t \in DOMAIN tasks : InsureCommitmentFails(t)
    \/ \E t \in DOMAIN tasks : InsureContractsFail(t)
    \/ \E t \in DOMAIN tasks, allowed \in BOOLEAN, currentAllowance \in Allowances :
          InsureAllowance(t, allowed, currentAllowance)
    \/ \E t \in DOMAIN tasks : InsureApproved(t)
    \/ \E t \in DOMAIN tasks : InsureApproveFails(t)
    \/ \E t \in DOMAIN tasks : InsureBuySent(t)
    \/ \E t \in DOMAIN tasks : InsureBuyFails(t)
    \/ \E t \in DOMAIN tasks : InsureWaitFails(t)
    \/ \E t \in DOMAIN tasks, hasEvent \in BOOLEAN : InsureReceipt(t, hasEvent)

SpecInsure == InitInsure /\ [][NextInsure]_vars

---------------------------------------------------------------------------
(* The prover module: loadCircuitArtifacts, and generateProof and          *)
(* verifyProof, which call it.  A call runs to its first await in one      *)
(* step; the three fetches of Promise.all resolve or reject in a later     *)
(* one, and other calls may fall in between.  An artifact set is named by  *)
(* the call that built it.                                                 *)

MaxLoaders == 3

LoaderKinds == {"loadCircuitArtifacts", "generateProof", "verifyProof"}

InitArtifacts == InitStore

\* the call, up to `await Promise.all([...])` or to the return of the cache
loadCircuitArtifacts(kind) ==
    /\ Len(tasks) < MaxLoaders
    /\ IF cachedArtifacts # NoArtifacts
       THEN /\ tasks' = Append(tasks, [kind |-> kind, pc |-> "loaded",
                                       artifacts |-> cachedArtifacts])
            /\ UNCHANGED fetches
       ELSE /\ tasks' = Append(tasks, [kind |-> kind, pc |-> "fetching"])
            /\ fetches' = [name \in ArtifactNames |-> fetches[name] + 1]
    /\ UNCHANGED <<store, policies, claimStates, ledgerRoot, ledgerPolicies, txs,
                   receipts, outcome, gated, cachedArtifacts, catalog>>

\* Promise.all resolved: cachedArtifacts = { wasm, zkey, verificationKey }
ArtifactsFetched(t) ==
    /\ InFlight(t)
    /\ tasks[t].pc = "fetching"
    /\ cachedArtifacts' = [name \in ArtifactNames |-> t]
    /\ tasks' = [tasks EXCEPT ![t] = [kind |-> tasks[t].kind, pc |-> "loaded",
                                      artifacts |-> cachedArtifacts']]
    /\ UNCHANGED <<store, policies, claimStates, ledgerRoot, ledgerPolicies, txs,
                   receipts, outcome, gated, fetches, catalog>>

\* one of the fetches rejected, or its response was not ok
ArtifactsFetchFails(t) ==
    /\ InFlight(t)
    /\ tasks[t].pc = "fetching"
    /\ tasks' = [tasks EXCEPT ![t] = [kind |-> tasks[t].kind, pc |-> "returned"]]
    /\ outcome' = [kind |-> tasks[t].kind, policyId |-> <<>>, pc |-> "failed"]
    /\ UNCHANGED <<store, policies, claimStates, ledgerRoot, ledgerPolicies, txs,
                   receipts, gated, cachedArtifacts, fetches, catalog>>

\* the caller has its artifacts: loadCircuitArtifacts returns them,
\* generateProof and verifyProof hand them to groth16
ArtifactsReturn(t) ==
    /\ InFlight(t)
    /\ tasks[t].pc = "loaded"
    /\ tasks' = [tasks EXCEPT ![t].pc = "returned"]
    /\ outcome' = [kind |-> tasks[t].kind, policyId |-> <<>>, pc |-> "done",
                   artifacts |-> tasks[t].artifacts]
    /\ UNCHANGED <<store, policies, claimStates, ledgerRoot, ledgerPolicies, txs,
                   receipts, gated, cachedArtifacts, fetches, catalog>>

NextArtifacts ==
    \/ \E kind \in LoaderKinds : loadCircuitArtifacts(kind)
    \/ \E t \in DOMAIN tasks : ArtifactsFetched(t)
    \/ \E t \in DOMAIN tasks : ArtifactsFetchFails(t)
    \/ \E t \in DOMAIN tasks : ArtifactsReturn(t)

SpecArtifacts == InitArtifacts /\ [][NextArtifacts]_vars

---------------------------------------------------------------------------
(* Two sessions (tabs) of the widget on one localStorage.  Each runs its   *)
(* own JavaScript thread: a call of updatePolicyForAddress is one getItem  *)
(* and, later, one setItem, and the calls of another session may fall in   *)
(* between.  Session n works on policy n.                                  *)

Sessions == {1, 2}

\* what handleCheckClaim and handleSubmitClaim merge into the record
SessionUpdates ==
    {[status |-> "eligible", eligibility |-> StoredSnapshot(<<"4", "3">>)],
     [status |-> "claimed", claimTxHash |-> <<"p", 1>>]}

InitSessions ==
    /\ store = SetItem(EmptyObject, PolicyKey(WalletAddress),
                       <<StoreRecord(<<"b", 1>>, ToDecString(1)),
                         StoreRecord(<<"b", 2>>, ToDecString(2))>>)
    /\ policies = getPoliciesForAddress(store, WalletAddress)
    /\ claimStates = LoadClaimStates(policies, EmptyObject)
    /\ tasks = <<>>
    /\ ledgerRoot = 26
    /\ ledgerPolicies = EmptyObject
    /\ txs = <<>>
    /\ receipts = <<>>
    /\ outcome = [kind |-> "mount", policyId |-> <<>>, pc |-> "done"]
    /\ gated = FALSE
    /\ cachedArtifacts = NoArtifacts
    /\ fetches = NoFetches
    /\ catalog = DEFAULT_PRODUCTS

\* a session between the getItem and the setItem of a call
SessionBusy(session) ==
    \E t \in DOMAIN tasks : tasks[t].session = session /\ tasks[t].pc = "read"

\* mergePolicyForAddress(address, policyId, updates) up to getPoliciesForAddress
SessionRead(session, updates) ==
    /\ Len(tasks) < MaxStoreCalls
    /\ ~SessionBusy(session)
    /\ tasks' = Append(tasks, [kind |-> "merge", session |-> session,
                               policyId |-> ToDecString(session),
                               updates |-> updates, read |-> store, pc |-> "read"])
    /\ UNCHANGED <<store, policies, claimStates, ledgerRoot, ledgerPolicies, txs,
                   receipts, outcome, gated,
                   cachedArtifacts, fetches, catalog>>

\* the rest of the call: findIndex, the updater, localStorage.setItem
SessionWrite(t) ==
    /\ t \in DOMAIN tasks
    /\ tasks[t].pc = "read"
    /\ LET merged == mergePolicyForAddress(tasks[t].read, WalletAddress,
                                           tasks[t].policyId, tasks[t].updates)
       IN  store' = IF merged.found
                    THEN SetItem(store, PolicyKey(WalletAddress),
                                 getPoliciesForAddress(merged.store, WalletAddress))
                    ELSE store
    /\ tasks' = [tasks EXCEPT ![t].pc = "written"]
    /\ UNCHANGED <<policies, claimStates, ledgerRoot, ledgerPolicies, txs,
                   receipts, outcome, gated,
                   cachedArtifacts, fetches, catalog>>

NextSessions ==
    \/ \E session \in Sessions, updates \in SessionUpdates : SessionRead(session, updates)
    \/ \E t \in 1..MaxStoreCalls : SessionWrite(t)

SpecSessions == InitSessions /\ [][NextSessions]_vars

---------------------------------------------------------------------------
(* checkEligibility applied to one catalog price: the purchase price, the
   oracle's current price and the threshold are the inputs. *)

InitEligibility ==
    /\ store = EmptyObject
    /\ policies = <<>>
    /\ claimStates = EmptyObject
    /\ tasks = <<>>
    /\ ledgerRoot = 26
    /\ ledgerPolicies = EmptyObject
    /\ txs = <<>>
    /\ receipts = <<>>
    /\ outcome \in {[kind |-> "eligibility", pc |-> "called", input |-> input] :
                      input \in EligibilityInputs}
    /\ gated = FALSE
    /\ cachedArtifacts = NoArtifacts
    /\ fetches = NoFetches
    /\ catalog = DEFAULT_PRODUCTS

\* checkEligibility returns for the matched product
EligibilityReturn ==
    /\ outcome.kind = "eligibility"
    /\ outcome.pc = "called"
    /\ \E root \in OracleRoots :
          outcome' = [kind |-> "eligibility", pc |-> "returned",
                      input |-> outcome.input,
                      result |-> checkEligibility(outcome.input.originalPrice,
                                                  outcome.input.currentPrice,
                                                  root,
                                                  [root |-> root,
                                                   currentPrice |->
                                                       outcome.input.currentPrice],
                                                  outcome.input.dropThresholdPercent)]
    /\ UNCHANGED <<store, policies, claimStates, tasks, ledgerRoot, ledgerPolicies,
                   txs, receipts, gated,
                   cachedArtifacts, fetches, catalog>>

NextEligibility == EligibilityReturn

SpecEligibility == InitEligibility /\ [][NextEligibility]_vars

---------------------------------------------------------------------------
(* calculateTierAndPremium.  A bigint amount of micro-units is kept as the pair
   of its whole tokens and the micro-units left over:
   <<tokens, micros>> stands for tokens * TOKEN_MULTIPLIER + micros. *)

TOKEN_MULTIPLIER == 1000000

Amount(tokens, micros) == <<tokens, micros>>

\* a >= b and a <= b of two amounts
AtLeast(a, b) == a[1] > b[1] \/ (a[1] = b[1] /\ a[2] >= b[2])

AtMost(a, b) == AtLeast(b, a)

\* the table with tier 2 reaching up to the first price of tier 3
TIER_BOUNDARIES_OVERLAPPING ==
    <<[min |-> Amount(1, 0), max |-> Amount(99, 999999),
       tier |-> 1, premium |-> Amount(1, 0)],
      [min |-> Amount(100, 0), max |-> Amount(500, 0),
       tier |-> 2, premium |-> Amount(3, 0)],
      [min |-> Amount(500, 0), max |-> Amount(999, 0),
       tier |-> 3, premium |-> Amount(7, 0)],
      [min |-> Amount(1000, 0), max |-> Amount(1999, 0),
       tier |-> 4, premium |-> Amount(13, 0)],
      [min |-> Amount(2000, 0), max |-> Amount(10000, 0),
       tier |-> 5, premium |-> Amount(20, 0)]>>

\* 1000000..99999999, 100000000..499000000, 500000000..999000000,
\* 1000000000..1999000000, 2000000000..10000000000
TIER_BOUNDARIES ==
    <<[min |-> Amount(1, 0), max |-> Amount(99, 999999),
       tier |-> 1, premium |-> Amount(1, 0)],
      [min |-> Amount(100, 0), max |-> Amount(499, 0),
       tier |-> 2, premium |-> Amount(3, 0)],
      [min |-> Amount(500, 0), max |-> Amount(999, 0),
       tier |-> 3, premium |-> Amount(7, 0)],
      [min |-> Amount(1000, 0), max |-> Amount(1999, 0),
       tier |-> 4, premium |-> Amount(13, 0)],
      [min |-> Amount(2000, 0), max |-> Amount(10000, 0),
       tier |-> 5, premium |-> Amount(20, 0)]>>

\* invoicePrice >= boundary.min && invoicePrice <= boundary.max
InBoundary(invoicePrice, boundary) ==
    AtLeast(invoicePrice, boundary.min) /\ AtMost(invoicePrice, boundary.max)

\* the for loop from the i-th boundary on; threw stands for the Error thrown
RECURSIVE TierFrom(_, _)
TierFrom(invoicePrice, i) ==
    IF i > Len(TIER_BOUNDARIES) THEN [threw |-> TRUE]
    ELSE IF InBoundary(invoicePrice, TIER_BOUNDARIES[i])
         THEN [threw |-> FALSE,
               tier |-> TIER_BOUNDARIES[i].tier,
               premium |-> TIER_BOUNDARIES[i].premium]
         ELSE TierFrom(invoicePrice, i + 1)

\* the loop falling back to the first tier when no boundary holds the price
calculateTierOrDefault(invoicePrice) ==
    LET found == TierFrom(invoicePrice, 1)
    IN  IF found.threw
        THEN [threw |-> FALSE,
              tier |-> TIER_BOUNDARIES[1].tier,
              premium |-> TIER_BOUNDARIES[1].premium]
        ELSE found

calculateTierAndPremium(invoicePrice) == TierFrom(invoicePrice, 1)

\* the invoice prices calculateTierAndPremium is applied to
TierTokens == {0 - 1, 0, 1, 99, 100, 199, 499, 500, 999, 1000, 1999, 2000,
               9999, 10000, 10001}

TierMicros == {0, 1, 500000, 990000, TOKEN_MULTIPLIER - 1}

InvoicePrices == {Amount(tokens, micros) : tokens \in TierTokens, micros \in TierMicros}

InitTier ==
    /\ store = EmptyObject
    /\ policies = <<>>
    /\ claimStates = EmptyObject
    /\ tasks = <<>>
    /\ ledgerRoot = 26
    /\ ledgerPolicies = EmptyObject
    /\ txs = <<>>
    /\ receipts = <<>>
    /\ outcome \in {[kind |-> "tier", pc |-> "called", invoicePrice |-> invoicePrice] :
                      invoicePrice \in InvoicePrices}
    /\ gated = FALSE
    /\ cachedArtifacts = NoArtifacts
    /\ fetches = NoFetches
    /\ catalog = DEFAULT_PRODUCTS

\* calculateTierAndPremium returns the tier and premium of a boundary
TierReturn ==
    /\ outcome.kind = "tier" /\ outcome.pc = "called"
    /\ LET result == calculateTierAndPremium(outcome.invoicePrice)
       IN  /\ ~result.threw
           /\ outcome' = [kind |-> "tier", pc |-> "returned",
                          invoicePrice |-> outcome.invoicePrice,
                          tier |-> result.tier, premium |-> result.premium]
    /\ UNCHANGED <<store, policies, claimStates, tasks, ledgerRoot, ledgerPolicies,
                   txs, receipts, gated,
                   cachedArtifacts, fetches, catalog>>

\* calculateTierAndPremium throws: the price is outside the valid tier ranges
TierThrow ==
    /\ outcome.kind = "tier" /\ outcome.pc = "called"
    /\ calculateTierAndPremium(outcome.invoicePrice).threw
    /\ outcome' = [kind |-> "tier", pc |-> "failed",
                   invoicePrice |-> outcome.invoicePrice, error |-> "OutsideTierRanges"]
    /\ UNCHANGED <<store, policies, claimStates, tasks, ledgerRoot, ledgerPolicies,
                   txs, receipts, gated,
                   cachedArtifacts, fetches, catalog>>

NextTier == TierReturn \/ TierThrow

SpecTier == InitTier /\ [][NextTier]_vars

---------------------------------------------------------------------------
(* The circuit inputs: toFieldString and buildCircuitInputs.  A JavaScript
   value is kept with its type; a number is kept as its count of
   thousandths, so that seconds obtained from milliseconds keep their
   fraction. *)

Str(chars) == [type |-> "string", chars |-> chars]

Num(thousandths) == [type |-> "number", thousandths |-> thousandths]

Big(n) == [type |-> "bigint", n |-> n]

\* a call that returned value, a call that threw error
Value(value) == [threw |-> FALSE, value |-> value]

Threw(error) == [threw |-> TRUE, error |-> error]

RECURSIVE TrimStart(_)
TrimStart(s) == IF s # <<>> /\ s[1] = " " THEN TrimStart(Tail(s)) ELSE s

RECURSIVE TrimEnd(_)
TrimEnd(s) == IF s # <<>> /\ s[Len(s)] = " " THEN TrimEnd(Front(s)) ELSE s

\* String.prototype.trim
Trim(s) == TrimEnd(TrimStart(s))

\* Number.isInteger(value), which BigInt(value) requires of a number
IsIntegerNumber(value) == value.thousandths % 1000 = 0

StartsWithHexPrefix(s) == Len(s) >= 2 /\ s[1] = "0" /\ s[2] \in {"x", "X"}

toFieldString(value) ==
    CASE value.type = "bigint" -> Value(ToDecString(value.n))
      [] value.type = "number" ->
            IF IsIntegerNumber(value)
            THEN Value(ToDecString(value.thousandths \div 1000))
            ELSE Threw("RangeError")
      [] OTHER ->
            LET trimmed == Trim(value.chars)
            IN  IF trimmed = <<>> THEN Value(<<"0">>)
                ELSE IF /\ StartsWithHexPrefix(trimmed)
                        /\ BigIntOfString(trimmed) # SyntaxError
                     THEN Value(ToDecString(BigIntOfString(trimmed)))
                     ELSE Value(trimmed)

\* the part of the record generatePolicyData builds that the circuit reads;
\* a date string is kept as the time in milliseconds it denotes
generatePurchaseDetails(commitmentData, invoiceData, now) ==
    LET invoiceDate == IF Has(invoiceData, "purchaseDate")
                       THEN Num(invoiceData.purchaseDate)
                       ELSE Num((now \div 1000) * 1000)
    IN  [policyPurchaseDate |-> Num((now \div 1000) * 1000),
         purchaseDetails |-> [orderHash |-> commitmentData.orderHash,
                              invoicePrice |-> commitmentData.invoicePrice,
                              invoiceDate |-> invoiceDate,
                              productHash |-> commitmentData.productHash,
                              salt |-> commitmentData.salt,
                              selectedTier |-> commitmentData.tier],
         secretCommitment |-> commitmentData.commitment,
         premium |-> commitmentData.premium]

\* invoiceDataForPolicy of handleItemInsure: item.orderDate || new Date().toISOString()
invoiceDataForPolicy(item, now) ==
    [purchaseDate |-> IF Has(item, "orderDate") THEN item.orderDate ELSE now]

\* commitmentData of handleItemInsure, from the result of buildCommitment
InsureCommitmentData ==
    [commitment |-> Str(<<"0", "x", "0", "c">>),
     tier |-> Num(2000),
     premium |-> Str(ToDecString(3)),
     invoicePrice |-> Str(ToDecString(InvoicePrice)),
     salt |-> Str(<<"0", "x", "5">>),
     productHash |-> Str(<<"0", "x", "2", "b">>),
     orderHash |-> Str(<<"0", "x", "1", "A">>)]

\* the results of the toFieldString calls, in the order of the object literal
CircuitFields(policy, proof, merkleRoot) ==
    <<toFieldString(policy.purchaseDetails.orderHash),
      toFieldString(policy.purchaseDetails.invoicePrice),
      toFieldString(policy.purchaseDetails.invoiceDate),
      toFieldString(policy.purchaseDetails.productHash),
      toFieldString(policy.purchaseDetails.salt),
      toFieldString(policy.purchaseDetails.selectedTier),
      toFieldString(proof.currentPrice),
      toFieldString(IF proof.leafBigInt.chars # <<>> THEN proof.leafBigInt
                    ELSE proof.leaf)>>
    \o [i \in DOMAIN proof.siblings |-> toFieldString(proof.siblings[i])]
    \o <<toFieldString(policy.secretCommitment),
         toFieldString(merkleRoot),
         toFieldString(policy.policyPurchaseDate),
         toFieldString(policy.premium)>>

CircuitFieldNames ==
    <<"orderHash", "invoicePrice", "invoiceDate", "productHash", "salt",
      "selectedTier", "currentPrice", "leafHash">>

buildCircuitInputs(policy, proof, merkleRoot) ==
    LET fields == CircuitFields(policy, proof, merkleRoot)
        n == Len(proof.siblings)
    IN  IF \E i \in DOMAIN fields : fields[i].threw
        THEN Threw(fields[CHOOSE i \in DOMAIN fields :
                             /\ fields[i].threw
                             /\ \A j \in 1..(i - 1) : ~fields[j].threw].error)
        ELSE Value([f \in Range(CircuitFieldNames) |->
                       fields[CHOOSE i \in DOMAIN CircuitFieldNames :
                                 CircuitFieldNames[i] = f].value]
                   @@ [merkleProof |-> [i \in 1..n |-> fields[8 + i].value],
                       leafIndex |-> proof.pathIndices,
                       commitment |-> fields[9 + n].value,
                       merkleRoot |-> fields[10 + n].value,
                       policyStartDate |-> fields[11 + n].value,
                       paidPremium |-> fields[12 + n].value])

\* the strings toFieldString is applied to
FieldChars == {"0", "x", "1", "Z", " "}

MaxFieldLen == 3

FieldStrings == UNION {[1..n -> FieldChars] : n \in 0..MaxFieldLen}

\* the order items, with and without an order date, and the times of purchase
OrderItems == {EmptyObject, [orderDate |-> 2000], [orderDate |-> 3000]}

PurchaseTimes == {5000, 5123, 6000, 6999}

\* the oracle's proofs
OracleProofs ==
    [leaf : {Str(<<"0", "x", "7">>)},
     leafBigInt : {Str(<<>>), Str(<<"7">>)},
     currentPrice : {Num(100000)},
     siblings : {<<>>, <<Str(<<"0", "x", "1">>), Str(<<"9">>)>>},
     pathIndices : {<<0, 1>>},
     root : {Str(r) : r \in OracleRoots}]

InitInputs ==
    /\ store = EmptyObject
    /\ policies = <<>>
    /\ claimStates = EmptyObject
    /\ tasks = <<>>
    /\ ledgerRoot = 26
    /\ ledgerPolicies = EmptyObject
    /\ txs = <<>>
    /\ receipts = <<>>
    /\ outcome \in
          {[kind |-> "toFieldString", pc |-> "called", value |-> Str(chars)] :
              chars \in FieldStrings}
          \cup
          {[kind |-> "buildCircuitInputs", pc |-> "called",
            policy |-> generatePurchaseDetails(InsureCommitmentData,
                                               invoiceDataForPolicy(item, now), now),
            proof |-> proof] :
              item \in OrderItems, now \in PurchaseTimes, proof \in OracleProofs}
    /\ gated = FALSE
    /\ cachedArtifacts = NoArtifacts
    /\ fetches = NoFetches
    /\ catalog = DEFAULT_PRODUCTS

\* toFieldString returns for a string
FieldReturn ==
    /\ outcome.kind = "toFieldString" /\ outcome.pc = "called"
    /\ outcome' = [kind |-> "toFieldString", pc |-> "returned",
                   value |-> outcome.value,
                   result |-> toFieldString(outcome.value).value]
    /\ UNCHANGED <<store, policies, claimStates, tasks, ledgerRoot, ledgerPolicies,
                   txs, receipts, gated,
                   cachedArtifacts, fetches, catalog>>

\* buildCircuitInputs returns the input object
InputsReturn ==
    /\ outcome.kind = "buildCircuitInputs" /\ outcome.pc = "called"
    /\ LET result == buildCircuitInputs(outcome.policy, outcome.proof, outcome.proof.root)
       IN  /\ ~result.threw
           /\ outcome' = [kind |-> "buildCircuitInputs", pc |-> "returned",
                          policy |-> outcome.policy, proof |-> outcome.proof,
                          inputs |-> result.value]
    /\ UNCHANGED <<store, policies, claimStates, tasks, ledgerRoot, ledgerPolicies,
                   txs, receipts, gated,
                   cachedArtifacts, fetches, catalog>>

\* a toFieldString call inside buildCircuitInputs throws
InputsThrow ==
    /\ outcome.kind = "buildCircuitInputs" /\ outcome.pc = "called"
    /\ LET result == buildCircuitInputs(outcome.policy, outcome.proof, outcome.proof.root)
       IN  /\ result.threw
           /\ outcome' = [kind |-> "buildCircuitInputs", pc |-> "failed",
                          policy |-> outcome.policy, proof |-> outcome.proof,
                          error |-> result.error]
    /\ UNCHANGED <<store, policies, claimStates, tasks, ledgerRoot, ledgerPolicies,
                   txs, receipts, gated,
                   cachedArtifacts, fetches, catalog>>

NextInputs == FieldReturn \/ InputsReturn \/ InputsThrow

SpecInputs == InitInputs /\ [][NextInputs]_vars

---------------------------------------------------------------------------
(* The proof formatters and generateClaimProof.  The prover's output has
   pi_a and pi_c of three coordinates and pi_b of three pairs. *)

\* Array.prototype.reverse, on a copy
Reverse(seq) == [i \in DOMAIN seq |-> seq[Len(seq) + 1 - i]]

\* Array.prototype.slice(0, n)
Slice(seq, n) == SubSeq(seq, 1, IF Len(seq) < n THEN Len(seq) ELSE n)

\* formatProof with b in the prover's order
formatProofUnswapped(fullProof) ==
    [proof |-> [a |-> <<fullProof.proof.pi_a[1], fullProof.proof.pi_a[2]>>,
                b |-> <<<<fullProof.proof.pi_b[1][1], fullProof.proof.pi_b[1][2]>>,
                        <<fullProof.proof.pi_b[2][1], fullProof.proof.pi_b[2][2]>>>>,
                c |-> <<fullProof.proof.pi_c[1], fullProof.proof.pi_c[2]>>],
     publicSignals |-> fullProof.publicSignals]

formatProof(fullProof) ==
    [proof |-> [a |-> <<fullProof.proof.pi_a[1], fullProof.proof.pi_a[2]>>,
                b |-> <<<<fullProof.proof.pi_b[1][2], fullProof.proof.pi_b[1][1]>>,
                        <<fullProof.proof.pi_b[2][2], fullProof.proof.pi_b[2][1]>>>>,
                c |-> <<fullProof.proof.pi_c[1], fullProof.proof.pi_c[2]>>],
     publicSignals |-> fullProof.publicSignals]

\* the ProofData generateZKProof makes of the prover's output
NormalizedProof(fullProof) ==
    LET pi_a == Slice(fullProof.proof.pi_a, 2)
        pi_b == Slice(fullProof.proof.pi_b, 2)
        pi_c == Slice(fullProof.proof.pi_c, 2)
    IN  [proof |-> [pi_a |-> <<pi_a[1], pi_a[2]>>,
                    pi_b |-> <<<<pi_b[1][1], pi_b[1][2]>>, <<pi_b[2][1], pi_b[2][2]>>>>,
                    pi_c |-> <<pi_c[1], pi_c[2]>>],
         publicSignals |-> fullProof.publicSignals]

formatProofForSolidity(proof) ==
    [a |-> <<proof.proof.pi_a[1], proof.proof.pi_a[2]>>,
     b |-> <<<<proof.proof.pi_b[1][2], proof.proof.pi_b[1][1]>>,
             <<proof.proof.pi_b[2][2], proof.proof.pi_b[2][1]>>>>,
     c |-> <<proof.proof.pi_c[1], proof.proof.pi_c[2]>>,
     publicInputs |-> proof.publicSignals]

\* serializeProofForContract, the version that slices pi_b and then reverses
serializeProofSliceFirst(proof) ==
    [a |-> Slice(proof.pi_a, 2),
     b |-> LET pairs == Slice(proof.pi_b, 2)
           IN  [i \in DOMAIN pairs |-> Reverse(pairs[i])],
     c |-> Slice(proof.pi_c, 2)]

\* serializeProofForContract, the version that reverses and then slices
serializeProofReverseFirst(proof) ==
    [a |-> Slice(proof.pi_a, 2),
     b |-> Slice([i \in DOMAIN proof.pi_b |-> Reverse(proof.pi_b[i])], 2),
     c |-> Slice(proof.pi_c, 2)]

Formatters ==
    {"formatProof", "formatProofForSolidity", "serializeProofSliceFirst",
     "serializeProofReverseFirst"}

\* the a, b and c a formatter gives for the prover's output
Formatted(formatter, fullProof) ==
    LET result ==
            CASE formatter = "formatProof" -> formatProof(fullProof).proof
              [] formatter = "formatProofForSolidity" ->
                    formatProofForSolidity(NormalizedProof(fullProof))
              [] formatter = "serializeProofSliceFirst" ->
                    serializeProofSliceFirst(fullProof.proof)
              [] OTHER -> serializeProofReverseFirst(fullProof.proof)
    IN  [a |-> result.a, b |-> result.b, c |-> result.c]

\* what groth16.fullProve resolves to
Coordinates == {"5", "6"}

ProverOutputs ==
    {[proof |-> [pi_a |-> pi_a,
                 pi_b |-> <<<<b[1], b[2]>>, <<b[3], b[4]>>, <<"1", "0">>>>,
                 pi_c |-> <<"7", "8", "1">>],
      publicSignals |-> <<"1", "43">>] :
        pi_a \in {<<"1", "2", "1">>, <<"2", "1", "1">>},
        b \in [1..4 -> Coordinates]}

\* the stored policies a claim is generated for
ClaimPolicies ==
    {generatePurchaseDetails(InsureCommitmentData, invoiceDataForPolicy(item, now), now) :
        item \in OrderItems, now \in {5000, 5123}}

ClaimProof == CHOOSE proof \in OracleProofs : proof.siblings # <<>> /\ proof.root = Str(<<"4", "3">>)

InitProof ==
    /\ store = EmptyObject
    /\ policies = <<>>
    /\ claimStates = EmptyObject
    /\ tasks = <<>>
    /\ ledgerRoot = 26
    /\ ledgerPolicies = EmptyObject
    /\ txs = <<>>
    /\ receipts = <<>>
    /\ outcome \in
          {[kind |-> "format", pc |-> "called", formatter |-> formatter,
            fullProof |-> fullProof] :
              formatter \in Formatters, fullProof \in ProverOutputs}
          \cup
          {[kind |-> "generateClaimProof", pc |-> "called", policy |-> policy,
            fullProof |-> fullProof] :
              policy \in ClaimPolicies, fullProof \in ProverOutputs}
    /\ gated = FALSE
    /\ cachedArtifacts = NoArtifacts
    /\ fetches = NoFetches
    /\ catalog = DEFAULT_PRODUCTS

ProofFrame ==
    UNCHANGED <<store, policies, claimStates, tasks, ledgerRoot, ledgerPolicies,
                txs, receipts, gated,
                cachedArtifacts, fetches, catalog>>

\* a formatter applied to the prover's output
FormatReturn ==
    /\ outcome.kind = "format" /\ outcome.pc = "called"
    /\ outcome' = [outcome EXCEPT !.pc = "returned"]
                    @@ [result |-> Formatted(outcome.formatter, outcome.fullProof)]
    /\ ProofFrame

\* generateClaimProof: buildCircuitInputs throws
ClaimInputsThrow ==
    /\ outcome.kind = "generateClaimProof" /\ outcome.pc = "called"
    /\ LET inputs == buildCircuitInputs(outcome.policy, ClaimProof, ClaimProof.root)
       IN  /\ inputs.threw
           /\ outcome' = [outcome EXCEPT !.pc = "failed"]
                           @@ [error |-> inputs.error, prover |-> "not called"]
    /\ ProofFrame

\* generateClaimProof: the inputs are handed to groth16.fullProve
ClaimProve ==
    /\ outcome.kind = "generateClaimProof" /\ outcome.pc = "called"
    /\ ~buildCircuitInputs(outcome.policy, ClaimProof, ClaimProof.root).threw
    /\ outcome' = [outcome EXCEPT !.pc = "proving"]
    /\ ProofFrame

\* groth16.fullProve rejects
ClaimProverFails ==
    /\ outcome.kind = "generateClaimProof" /\ outcome.pc = "proving"
    /\ outcome' = [outcome EXCEPT !.pc = "failed"]
                    @@ [error |-> "ProverError", prover |-> "failed"]
    /\ ProofFrame

\* groth16.fullProve resolves: formatProof, then the verification key is requested
ClaimProved ==
    /\ outcome.kind = "generateClaimProof" /\ outcome.pc = "proving"
    /\ outcome' = [outcome EXCEPT !.pc = "loadingKey"]
                    @@ [formatted |-> formatProof(outcome.fullProof)]
    /\ ProofFrame

\* loadVerificationKey throws: caught, a warning, the formatted proof is returned
ClaimKeyFails ==
    /\ outcome.kind = "generateClaimProof" /\ outcome.pc = "loadingKey"
    /\ outcome' = [outcome EXCEPT !.pc = "returned"]
                    @@ [verified |-> "no key", result |-> outcome.formatted]
    /\ ProofFrame

ClaimKeyLoaded ==
    /\ outcome.kind = "generateClaimProof" /\ outcome.pc = "loadingKey"
    /\ outcome' = [outcome EXCEPT !.pc = "verifying"]
    /\ ProofFrame

\* groth16.verify resolves to true or false, or throws: the proof is returned
ClaimVerified ==
    /\ outcome.kind = "generateClaimProof" /\ outcome.pc = "verifying"
    /\ \E verified \in {"valid", "invalid", "threw"} :
          outcome' = [outcome EXCEPT !.pc = "returned"]
                       @@ [verified |-> verified, result |-> outcome.formatted]
    /\ ProofFrame

\* handleSubmitClaim hands the returned proof to claimPayout
ClaimPayoutCalled ==
    /\ outcome.kind = "generateClaimProof" /\ outcome.pc = "returned"
    /\ outcome' = [outcome EXCEPT !.pc = "submitted"]
                    @@ [claimPayout |-> [a |-> outcome.result.proof.a,
                                         b |-> outcome.result.proof.b,
                                         c |-> outcome.result.proof.c,
                                         publicSignals |-> outcome.result.publicSignals]]
    /\ ProofFrame

NextProof ==
    \/ FormatReturn
    \/ ClaimInputsThrow
    \/ ClaimProve
    \/ ClaimProverFails
    \/ ClaimProved
    \/ ClaimKeyFails
    \/ ClaimKeyLoaded
    \/ ClaimVerified
    \/ ClaimPayoutCalled

SpecProof == InitProof /\ [][NextProof]_vars

---------------------------------------------------------------------------
(* The catalog API: the POST branch of the /api/products handler.  A      *)
(* request body is an object whose fields are typed values; NaN and        *)
(* Infinity are numbers without thousandths.                               *)

ToUpperCase(s) == [i \in DOMAIN s |-> UpperChar(s[i])]

NotFinite(name) == [type |-> "number", nonfinite |-> name]

\* Number(basePrice)
NumberOf(body) ==
    IF ~Has(body, "basePrice") THEN NotFinite("NaN")
    ELSE IF body.basePrice.type = "number" THEN body.basePrice
    ELSE IF Trim(body.basePrice.chars) = <<>> THEN Num(0)
    ELSE IF IsDecimalDigits(Trim(body.basePrice.chars))
    THEN Num(1000 * ParseDec(Trim(body.basePrice.chars)))
    ELSE NotFinite("NaN")

\* id.trim().toUpperCase() of a body that has a string id
NormalizedId(body) == ToUpperCase(Trim(body.id.chars))

\* Array.prototype.findIndex on product.id.toUpperCase(); 0 stands for -1
FindProduct(products, normalizedId) ==
    IF \E i \in DOMAIN products : ToUpperCase(products[i].id) = normalizedId
    THEN CHOOSE i \in DOMAIN products :
            /\ ToUpperCase(products[i].id) = normalizedId
            /\ \A j \in 1..(i - 1) : ToUpperCase(products[j].id) # normalizedId
    ELSE 0

\* the product of a body that passed the checks
ProductOf(body) ==
    [id |-> NormalizedId(body),
     name |-> IF Has(body, "name") /\ body.name.type = "string"
                 /\ Len(Trim(body.name.chars)) > 0
              THEN Trim(body.name.chars) ELSE NormalizedId(body),
     basePrice |-> (NumberOf(body).thousandths + 500) \div 1000]

\* the status the checks before readProducts answer with; 0 when they pass
PostRejection(body) ==
    IF ~Has(body, "id") \/ body.id.type # "string" \/ body.id.chars = <<>> THEN 400
    ELSE IF NormalizedId(body) = <<>> THEN 400
    ELSE IF ~Has(NumberOf(body), "thousandths") \/ NumberOf(body).thousandths <= 0
    THEN 400
    ELSE 0

\* an upsert that always pushes the product
UpsertAppending(products, product) == Append(products, product)

\* the list written: products[existingIndex] = product, or products.push(product)
Upsert(products, product) ==
    LET existingIndex == FindProduct(products, product.id)
    IN  IF existingIndex > 0 THEN [products EXCEPT ![existingIndex] = product]
        ELSE Append(products, product)

PostIds ==
    {Str(<<>>), Str(<<" ">>), Num(5000), Str(<<"a", "1">>),
     Str(<<" ", "A", "1", " ">>), Str(<<"a", "i", "r">>)}

PostNames == {Str(<<" ", "n", " ">>)}

PostPrices ==
    {Num(2500), Num(0), Num(-1000), NotFinite("NaN"), NotFinite("Infinity"),
     Str(<<"1", "2">>), Str(<<"x">>)}

\* req.body: every field may be missing
PostBodies ==
    {Spread(Spread(id, name), basePrice) :
        id \in {EmptyObject} \cup {[id |-> v] : v \in PostIds},
        name \in {EmptyObject} \cup {[name |-> v] : v \in PostNames},
        basePrice \in {EmptyObject} \cup {[basePrice |-> v] : v \in PostPrices}}

InitCatalog == InitStore

\* one POST handled from the request to the response, no other in between
CatalogPost(body) ==
    /\ IF PostRejection(body) # 0
       THEN /\ UNCHANGED catalog
            /\ outcome' = [kind |-> "POST", policyId |-> <<>>, pc |-> "done",
                           body |-> body, status |-> PostRejection(body)]
       ELSE /\ catalog' = Upsert(catalog, ProductOf(body))
            /\ outcome' = [kind |-> "POST", policyId |-> <<>>, pc |-> "done",
                           body |-> body, status |-> 200,
                           product |-> ProductOf(body)]
    /\ UNCHANGED <<store, policies, claimStates, tasks, ledgerRoot, ledgerPolicies,
                   txs, receipts, gated, cachedArtifacts, fetches>>

NextCatalog == \E body \in PostBodies : CatalogPost(body)

\* the catalog under any sequence of POST requests
SpecCatalog == InitCatalog /\ [][NextCatalog]_vars

(* POST requests handled concurrently: a request runs to `await            *)
(* readProducts()`, reads the file in a later step and writes it in a      *)
(* third, and the steps of other requests may fall in between.             *)

MaxPosts == 2

RaceBodies ==
    {[id |-> Str(<<"a", "1">>), basePrice |-> Num(3000)],
     [id |-> Str(<<" ", "A", "1", " ">>), basePrice |-> Num(12000)],
     [id |-> Str(<<"B", "2">>), basePrice |-> Num(3000)],
     [id |-> Str(<<"B", "2">>)]}

\* the handler up to the await of readProducts, or to the 400 response
PostArrive(body) ==
    /\ Len(tasks) < MaxPosts
    /\ IF PostRejection(body) # 0
       THEN /\ tasks' = Append(tasks, [kind |-> "POST", pc |-> "returned",
                                       status |-> PostRejection(body)])
            /\ outcome' = [kind |-> "POST", policyId |-> <<>>, pc |-> "done",
                           body |-> body, status |-> PostRejection(body)]
       ELSE /\ tasks' = Append(tasks, [kind |-> "POST", pc |-> "reading",
                                       product |-> ProductOf(body)])
            /\ UNCHANGED outcome
    /\ UNCHANGED <<store, policies, claimStates, ledgerRoot, ledgerPolicies, txs,
                   receipts, gated, cachedArtifacts, fetches, catalog>>

\* readProducts resolved; the product is put into the list read
PostRead(t) ==
    /\ InFlight(t)
    /\ tasks[t].pc = "reading"
    /\ tasks' = [tasks EXCEPT ![t] =
                    [kind |-> "POST", pc |-> "writing", product |-> tasks[t].product,
                     products |-> Upsert(catalog, tasks[t].product)]]
    /\ UNCHANGED <<store, policies, claimStates, ledgerRoot, ledgerPolicies, txs,
                   receipts, outcome, gated, cachedArtifacts, fetches, catalog>>

\* writeProducts resolved; res.status(200).json(product)
PostWrite(t) ==
    /\ InFlight(t)
    /\ tasks[t].pc = "writing"
    /\ catalog' = tasks[t].products
    /\ tasks' = [tasks EXCEPT ![t] =
                    [kind |-> "POST", pc |-> "returned", status |-> 200,
                     product |-> tasks[t].product]]
    /\ outcome' = [kind |-> "POST", policyId |-> <<>>, pc |-> "done",
                   status |-> 200, product |-> tasks[t].product]
    /\ UNCHANGED <<store, policies, claimStates, ledgerRoot, ledgerPolicies, txs,
                   receipts, gated, cachedArtifacts, fetches>>

NextCatalogRace ==
    \/ \E body \in RaceBodies : PostArrive(body)
    \/ \E t \in DOMAIN tasks : PostRead(t)
    \/ \E t \in DOMAIN tasks : PostWrite(t)

SpecCatalogRace == InitCatalog /\ [][NextCatalogRace]_vars

---------------------------------------------------------------------------
(* checkEligibility looking the product up in the oracle's price list. *)

MaxPrices == 2

\* normalizeOracleProductId(value)
normalizeOracleProductId(value) == Trim(KeepAlnum(ToUpperCase(value)))

\* the predicate of prices.find with the branch for an empty normalized
\* input id left out
MatchesNormalizedOnly(price, productId) ==
    LET normalizedInputId == normalizeOracleProductId(productId)
    IN  /\ normalizedInputId # <<>>
        /\ normalizeOracleProductId(price.id) = normalizedInputId

\* the predicate of prices.find
MatchesProduct(price, productId) ==
    LET normalizedInputId == normalizeOracleProductId(productId)
        trimmedInputId == ToLowerCase(Trim(productId))
    IN  IF normalizedInputId # <<>>
        THEN normalizeOracleProductId(price.id) = normalizedInputId
        ELSE ToLowerCase(Trim(price.id)) = trimmedInputId

\* prices.find(...): the index of the first entry matching, 0 for undefined
FindMatchedProduct(prices, productId) ==
    IF \E i \in DOMAIN prices : MatchesProduct(prices[i], productId)
    THEN CHOOSE i \in DOMAIN prices :
            /\ MatchesProduct(prices[i], productId)
            /\ \A j \in 1..(i - 1) : ~MatchesProduct(prices[j], productId)
    ELSE 0

\* product ids: lower case, upper case, with a hyphen, and three ids that
\* hold no letter and no digit
MatchIds ==
    {<<"b", "1">>, <<"B", "1">>, <<"B", "-", "1">>,
     <<"-">>, <<" ", "-">>, <<"+">>}

OraclePriceLists ==
    UNION {[1..n -> {[id |-> id, currentPrice |-> 190] : id \in MatchIds}] :
              n \in 0..MaxPrices}

InitMatch ==
    /\ store = EmptyObject
    /\ policies = <<>>
    /\ claimStates = EmptyObject
    /\ tasks = <<>>
    /\ ledgerRoot = 26
    /\ ledgerPolicies = EmptyObject
    /\ txs = <<>>
    /\ receipts = <<>>
    /\ outcome \in {[kind |-> "match", pc |-> "called",
                     productId |-> productId, prices |-> prices] :
                       productId \in MatchIds, prices \in OraclePriceLists}
    /\ gated = FALSE
    /\ cachedArtifacts = NoArtifacts
    /\ fetches = NoFetches
    /\ catalog = DEFAULT_PRODUCTS

\* an entry matched: checkEligibility goes on to getMerkleProof
MatchFound ==
    /\ outcome.kind = "match"
    /\ outcome.pc = "called"
    /\ FindMatchedProduct(outcome.prices, outcome.productId) # 0
    /\ outcome' = Spread(outcome,
                     [pc |-> "matched",
                      matchedProduct |->
                         outcome.prices[FindMatchedProduct(outcome.prices,
                                                           outcome.productId)]])
    /\ UNCHANGED <<store, policies, claimStates, tasks, ledgerRoot, ledgerPolicies,
                   txs, receipts, gated, cachedArtifacts, fetches, catalog>>

\* no entry matched: Product not found in oracle catalog
MatchThrows ==
    /\ outcome.kind = "match"
    /\ outcome.pc = "called"
    /\ FindMatchedProduct(outcome.prices, outcome.productId) = 0
    /\ outcome' = Spread(outcome, [pc |-> "thrown", error |-> "ProductNotFound"])
    /\ UNCHANGED <<store, policies, claimStates, tasks, ledgerRoot, ledgerPolicies,
                   txs, receipts, gated, cachedArtifacts, fetches, catalog>>

NextMatch == MatchFound \/ MatchThrows

SpecMatch == InitMatch /\ [][NextMatch]_vars

---------------------------------------------------------------------------
(* handleItemInsure for an order item with a price and an order date: what *)
(* buildCommitment hashes and what the saved record holds.  A price is its *)
(* count of micro-units, a time the milliseconds since the epoch, and the  *)
(* Poseidon hash is kept as the list of the numbers hashed.                *)

MaxPurchases == 2

\* new Date(value).toISOString().split('T')[0], read back by new Date: the
\* midnight (UTC) of the day of value
DateOnly(ms) == (ms \div 86400000) * 86400000

\* invoiceData of handleItemInsure
InvoiceDataOf(item, now) ==
    [orderNumber |-> item.orderId,
     purchasePriceUsd |-> item.priceMicros,
     purchaseDate |-> DateOnly(IF Has(item, "orderDate") THEN item.orderDate ELSE now)]

\* a bigint of micro-units as whole tokens and the micro-units left over
AmountOf(n) == Amount(n \div TOKEN_MULTIPLIER, n % TOKEN_MULTIPLIER)

MicrosOf(amount) == amount[1] * TOKEN_MULTIPLIER + amount[2]

\* poseidon([...]) of buildCommitment
Poseidon(inputs) == [poseidon |-> inputs]

\* the result of buildCommitment for the tier and premium found; the order
\* number stands for its keccak256 hash and 43 for the hash of the product id
CommitmentFrom(invoiceData, salt, found) ==
    LET orderHash == <<"0", "x">> \o ToHexString(invoiceData.orderNumber)
        invoicePrice == invoiceData.purchasePriceUsd
        invoiceDate == invoiceData.purchaseDate \div 1000
        productHash == 43
    IN  [commitment |-> Poseidon(<<BigIntOfString(orderHash), invoicePrice, invoiceDate,
                                   productHash, salt, found.tier>>),
         details |-> [orderHash |-> Str(orderHash),
                      invoicePrice |-> Big(invoicePrice),
                      invoiceDate |-> Num(invoiceDate * 1000),
                      productHash |-> Big(productHash),
                      salt |-> Big(salt),
                      selectedTier |-> Num(found.tier * 1000)],
         tier |-> Num(found.tier * 1000),
         premium |-> Big(MicrosOf(found.premium))]

\* buildCommitment with a price outside the tiers put into the first tier
buildCommitmentDefaultTier(invoiceData, salt) ==
    Value(CommitmentFrom(invoiceData, salt,
                         calculateTierOrDefault(AmountOf(invoiceData.purchasePriceUsd))))

\* buildCommitment: the error calculateTierAndPremium throws is thrown on
buildCommitment(invoiceData, salt) ==
    LET found == calculateTierAndPremium(AmountOf(invoiceData.purchasePriceUsd))
    IN  IF found.threw THEN Threw("OutsideTierRanges")
        ELSE Value(CommitmentFrom(invoiceData, salt, found))

\* commitmentData of handleItemInsure
CommitmentDataOf(result) ==
    [commitment |-> result.commitment,
     tier |-> result.tier,
     premium |-> Str(ToDecString(result.premium.n)),
     invoicePrice |-> Str(ToDecString(result.details.invoicePrice.n)),
     salt |-> Str(<<"0", "x">> \o ToHexString(result.details.salt.n)),
     productHash |-> Str(<<"0", "x">> \o ToHexString(result.details.productHash.n)),
     orderHash |-> result.details.orderHash]

\* generatePolicyData(receipt.hash, ..., policyId, commitmentData, invoiceDataForPolicy)
PolicyDataOf(transactionHash, policyId, commitmentData, item, now) ==
    Spread(generatePurchaseDetails(commitmentData, invoiceDataForPolicy(item, now), now),
           [policyId |-> policyId,
            transactionHash |-> transactionHash,
            tier |-> commitmentData.tier,
            status |-> "active"])

\* the order items: a price inside the second tier, one between the second
\* and the third tier and one of zero; no order date, the midnight of a day,
\* and half past ten on that day
PurchaseItems ==
    {[orderId |-> 26, priceMicros |-> price] : price \in {150000000, 499500000, 0}}
    \cup
    {[orderId |-> 26, priceMicros |-> price, orderDate |-> date] :
        price \in {150000000, 499500000, 0},
        date \in {86400000, 86400000 + 37800000}}

\* the time of the click, and the times at which the receipt is handled
ClickTimes == {2 * 86400000 + 5123}

ReceiptTimes == {2 * 86400000 + 6000, 2 * 86400000 + 7250}

Salts == {5}

InitPurchase == InitStore

PurchaseClick(item, now) ==
    /\ Len(tasks) < MaxPurchases
    /\ tasks' = Append(tasks, [kind |-> "insure", policyId |-> <<>>,
                               pc |-> "generating", item |-> item,
                               invoiceData |-> InvoiceDataOf(item, now)])
    /\ UNCHANGED <<store, policies, claimStates, ledgerRoot, ledgerPolicies, txs,
                   receipts, outcome, gated, cachedArtifacts, fetches, catalog>>

\* buildCommitment settled: the handler goes on to the contracts, or its
\* catch records the error and sets the step to idle
PurchaseCommitment(t, salt) ==
    /\ InFlight(t)
    /\ tasks[t].kind = "insure"
    /\ tasks[t].pc = "generating"
    /\ LET result == buildCommitment(tasks[t].invoiceData, salt)
       IN  IF result.threw
           THEN Return(t, "zkError", [failedAt |-> "generating",
                                      zkError |-> result.error,
                                      zkStep |-> "idle"])
           ELSE /\ tasks' = SetTask(t, [pc |-> "allowance",
                                        buildCommitmentResult |-> result.value])
                /\ UNCHANGED outcome
    /\ UNCHANGED <<store, policies, claimStates, ledgerRoot, ledgerPolicies, txs,
                   receipts, gated, cachedArtifacts, fetches, catalog>>

\* tx.wait() resolved with the receipt: the rest of the handler
PurchaseReceipt(t, hasEvent, now) ==
    /\ InFlight(t)
    /\ tasks[t].kind = "insure"
    /\ tasks[t].pc = "waiting"
    /\ LET ledgerId == Cardinality(DOMAIN ledgerPolicies) + 1
           policyId == IF hasEvent THEN ToDecString(ledgerId) ELSE UnknownId
           receipt == [hash |-> <<"b", t>>]
           commitmentData == CommitmentDataOf(tasks[t].buildCommitmentResult)
           policyData == PolicyDataOf(receipt.hash, policyId, commitmentData,
                                      tasks[t].item, now)
           saved == saveCommitmentForAddress(
                        savePolicyForAddress(store, WalletAddress, policyData),
                        WalletAddress, commitmentData)
       IN  /\ ledgerPolicies' =
                 [id \in DOMAIN ledgerPolicies \cup {ledgerId} |->
                     IF id = ledgerId
                     THEN [buyer |-> SignerAddress, alreadyClaimed |-> FALSE]
                     ELSE ledgerPolicies[id]]
           /\ receipts' = Append(receipts, receipt)
           /\ store' = saved
           /\ policies' = getPoliciesForAddress(saved, WalletAddress)
           /\ claimStates' =
                 [k \in DOMAIN claimStates \cup {policyId} |->
                     IF k = policyId THEN [status |-> "active"] ELSE claimStates[k]]
           /\ Return(t, "success", [transactionHash |-> receipt.hash])
    /\ UNCHANGED <<ledgerRoot, txs, gated, cachedArtifacts, fetches, catalog>>

NextPurchase ==
    \/ \E item \in PurchaseItems, now \in ClickTimes : PurchaseClick(item, now)
    \/ \E t \in DOMAIN tasks, salt \in Salts : PurchaseCommitment(t, salt)
    \/ \E t \in DOMAIN tasks : InsureContractsFail(t)
    \/ \E t \in DOMAIN tasks, allowed \in BOOLEAN, currentAllowance \in Allowances :
          InsureAllowance(t, allowed, currentAllowance)
    \/ \E t \in DOMAIN tasks : InsureApproved(t)
    \/ \E t \in DOMAIN tasks : InsureApproveFails(t)
    \/ \E t \in DOMAIN tasks : InsureBuySent(t)
    \/ \E t \in DOMAIN tasks : InsureBuyFails(t)
    \/ \E t \in DOMAIN tasks : InsureWaitFails(t)
    \/ \E t \in DOMAIN tasks, hasEvent \in BOOLEAN, now \in ReceiptTimes :
          PurchaseReceipt(t, hasEvent, now)

SpecPurchase == InitPurchase /\ [][NextPurchase]_vars

---------------------------------------------------------------------------
(* Properties of the policy store. *)

\* C10: after any sequence of savePolicyForAddress, updatePolicyForAddress and
\* mergePolicyForAddress calls, no address holds two records with the same
\* transactionHash.
C10_UniqueTransactionHash ==
    \A key \in DOMAIN store :
        \A i, j \in DOMAIN store[key] :
            i # j => store[key][i].transactionHash # store[key][j].transactionHash

\* the records of an address that carry a transaction hash
RecordsWithHash(st, walletAddress, transactionHash) ==
    {i \in DOMAIN getPoliciesForAddress(st, walletAddress) :
        getPoliciesForAddress(st, walletAddress)[i].transactionHash = transactionHash}

\* C11: savePolicyForAddress called twice with records of the same
\* transactionHash stores exactly one record of that hash, and the second call
\* leaves the store, every field of the first record included, as it was.
C11_SaveIdempotent ==
    \A a \in StoreAddresses, h \in StoreHashes, id1 \in StoreIds, id2 \in StoreIds :
        LET first == savePolicyForAddress(store, a, StoreRecord(h, id1))
            second == savePolicyForAddress(first, a, StoreRecord(h, id2))
        IN  /\ second = first
            /\ RecordsWithHash(store, a, h) = {} =>
                  Cardinality(RecordsWithHash(second, a, h)) = 1

\* a second save of a transaction hash was skipped, one record carrying it
C11_Witness ==
    /\ outcome.kind = "save" /\ outcome.pc = "skipped"
    /\ Cardinality(RecordsWithHash(store, WalletAddress, outcome.transactionHash)) = 1

---------------------------------------------------------------------------
(* Properties of the claim life cycle. *)

\* the records localStorage holds for the wallet
StoredPolicies == getPoliciesForAddress(store, WalletAddress)

StoredRecords(policyId) ==
    {StoredPolicies[i] : i \in {j \in DOMAIN StoredPolicies :
                                    StoredPolicies[j].policyId = policyId}}

StoredClaimed(p) == Has(p, "status") /\ p.status = "claimed"

\* C1: once the stored record of a policy has status claimed, every later
\* step leaves its stored status claimed and its secretCommitment and premium
\* as they were.
C1_ClaimedIsTerminal ==
    [][\A i \in DOMAIN StoredPolicies :
          StoredClaimed(StoredPolicies[i]) =>
             /\ i \in DOMAIN StoredPolicies'
             /\ StoredClaimed(StoredPolicies'[i])
             /\ StoredPolicies'[i].secretCommitment = StoredPolicies[i].secretCommitment
             /\ StoredPolicies'[i].premium = StoredPolicies[i].premium]_vars

\* the claimPayout transactions for a policy that the vault has not reverted
LiveClaimPayouts(policyId) ==
    {k \in DOMAIN txs : txs[k].policyId = BigIntOfString(policyId)
                        /\ txs[k].status # "reverted"}

\* the writes of status claimed the store took for a policy
ClaimedWrites(policyId) ==
    {k \in DOMAIN receipts : receipts[k].policyId = policyId /\ receipts[k].stored}

\* C2: for one policy, over any interleaving of handleSubmitClaim invocations,
\* claimPayout is called at most once (calls the vault reverted aside) and the
\* stored record is moved to claimed at most once.
C2_ClaimFiresOnce ==
    \A i \in DOMAIN policies :
        /\ Cardinality(LiveClaimPayouts(policies[i].policyId)) <= 1
        /\ Cardinality(ClaimedWrites(policies[i].policyId)) <= 1

---------------------------------------------------------------------------
(* Properties of the checks handleSubmitClaim makes before claimPayout. *)

\* invocation t of handleSubmitClaim holds both answers of the vault
Verifying(t) ==
    /\ InFlight(t)
    /\ tasks[t].kind = "submit" /\ tasks[t].pc = "reading"
    /\ Has(tasks[t], "onChainRoot") /\ Has(tasks[t], "storedPolicy")

\* the vault's root and the snapshot's root differ as 32-byte values
RootsDiffer(t) ==
    BigIntOfString(tasks[t].claimState.eligibility.merkleRoot) # tasks[t].onChainRoot

\* the registered buyer is not the submitting wallet, letter case aside
BuyerDiffers(t) ==
    ToLowerCase(tasks[t].storedPolicy.buyer) # ToLowerCase(SignerAddress)

SubmitFailedWith(o, message) ==
    /\ o.kind = "submit" /\ o.pc = "failed"
    /\ Has(o, "error") /\ o.error = message

\* C3: when the vault's priceMerkleRoot() differs from the snapshot's root,
\* handleSubmitClaim fails with the stale-root error, sends no claimPayout
\* and leaves the store as it was.
C3_StaleRootRejected ==
    [][\A t \in DOMAIN tasks :
          (Verifying(t) /\ RootsDiffer(t) /\ tasks'[t] # tasks[t]) =>
             /\ SubmitFailedWith(outcome', "StaleRoot")
             /\ txs' = txs
             /\ store' = store]_vars

\* a submission failed on the stale root
C3_Witness == SubmitFailedWith(outcome, "StaleRoot")

\* C4 (as stated): a claim on a policy the vault has as alreadyClaimed fails
\* with the already-claimed error, sends no claimPayout and does not move the
\* stored record to claimed.
C4_AlreadyClaimedError ==
    [][\A t \in DOMAIN tasks :
          (Verifying(t) /\ tasks[t].storedPolicy.alreadyClaimed
             /\ tasks'[t] # tasks[t]) =>
             /\ SubmitFailedWith(outcome', "AlreadyClaimed")
             /\ txs' = txs
             /\ store' = store]_vars

\* C4 (amended): a claim on a policy the vault has as alreadyClaimed fails,
\* sends no claimPayout and leaves the store as it was; the error is the
\* already-claimed one when the root and the buyer pass their checks, which
\* come first.
C4_AlreadyClaimedRejected ==
    [][\A t \in DOMAIN tasks :
          (Verifying(t) /\ tasks[t].storedPolicy.alreadyClaimed
             /\ tasks'[t] # tasks[t]) =>
             /\ outcome'.kind = "submit" /\ outcome'.pc = "failed"
             /\ txs' = txs
             /\ store' = store
             /\ (~RootsDiffer(t) /\ ~BuyerDiffers(t)) =>
                   SubmitFailedWith(outcome', "AlreadyClaimed")]_vars

\* a submission failed on alreadyClaimed
C4_Witness == SubmitFailedWith(outcome, "AlreadyClaimed")

\* C5: when the buyer the vault registered differs, letter case aside, from
\* the submitting wallet, handleSubmitClaim fails, sends no claimPayout and
\* leaves the store as it was.
C5_OtherBuyerRejected ==
    [][\A t \in DOMAIN tasks :
          (Verifying(t) /\ BuyerDiffers(t) /\ tasks'[t] # tasks[t]) =>
             /\ outcome'.kind = "submit" /\ outcome'.pc = "failed"
             /\ txs' = txs
             /\ store' = store]_vars

\* a submission failed on the buyer
C5_Witness == SubmitFailedWith(outcome, "OtherWallet")

\* the claim state of a policy holds a snapshot with an oracle proof
HasProofSnapshot(cs, policyId) ==
    /\ policyId \in DOMAIN cs
    /\ Has(cs[policyId], "eligibility")
    /\ Has(cs[policyId].eligibility, "proof")

\* C6: handleSubmitClaim on a policy without a snapshot holding a proof, or
\* with a policyId that is not decimal digits, returns at once: no proof
\* generation and no ledger call is started, and the claim states, the store
\* and the vault are as they were.
C6_NoSnapshotNoCall ==
    [][\A i \in DOMAIN policies :
          (/\ handleSubmitClaim(i)
           /\ \/ ~HasProofSnapshot(claimStates, policies[i].policyId)
              \/ ~IsDecimalDigits(policies[i].policyId)) =>
             /\ tasks' = Append(tasks, ReturnedTask)
             /\ UNCHANGED <<claimStates, store, policies, txs, receipts,
                            ledgerRoot, ledgerPolicies>>]_vars

\* a submission was turned away for its snapshot or its policyId
C6_Witness ==
    /\ outcome.kind = "submit" /\ outcome.pc = "rejected"
    /\ \/ ~HasProofSnapshot(claimStates, outcome.policyId)
       \/ ~IsDecimalDigits(outcome.policyId)

---------------------------------------------------------------------------
(* Properties of the claim status. *)

\* C7: every claimPayout receipt obtained for a policy leaves the stored
\* record with status claimed and claimTxHash equal to the receipt's hash.
C7_ReceiptPersisted ==
    \A k \in DOMAIN receipts :
        \E p \in StoredRecords(receipts[k].policyId) :
            /\ StoredClaimed(p)
            /\ Has(p, "claimTxHash") /\ p.claimTxHash = receipts[k].hash

\* C8: claiming is entered only from eligible, claimed only from claiming,
\* and checking is never entered from claiming or claimed.
C8_StatusOrder ==
    [][\A id \in DOMAIN claimStates :
          LET from == claimStates[id].status
              to == StatusOf(claimStates', id)
          IN  from # to =>
                 /\ to = "claiming" => from = "eligible"
                 /\ to = "claimed" => from = "claiming"
                 /\ to = "checking" => from \notin {"claiming", "claimed"}]_vars

\* C9: the status error is entered only from checking or claiming, and a
\* handler that fails leaves the policy with the status it had before the
\* handler started.
C9_ErrorReturns ==
    [][/\ \A id \in DOMAIN claimStates :
             (StatusOf(claimStates', id) = "error" /\ claimStates[id].status # "error")
                => claimStates[id].status \in {"checking", "claiming"}
       /\ \A t \in DOMAIN tasks :
             (InFlight(t) /\ tasks'[t] = ReturnedTask /\ outcome'.pc = "failed")
                => StatusOf(claimStates', tasks[t].policyId) = tasks[t].pre]_vars

---------------------------------------------------------------------------
(* Properties of the oracle proof and of the writes of a claim. *)

\* invocation t of handleSubmitClaim has handed its snapshot's proof to the prover
Submitting(t) == InFlight(t) /\ tasks[t].kind = "submit"

\* C12: a snapshot whose proof.root differs from its merkleRoot never reaches
\* the prover or claimPayout: every submission under way carries a proof of
\* the root it submits.
C12_ProofReproducesRoot ==
    \A t \in DOMAIN tasks :
        Submitting(t) =>
            tasks[t].claimState.eligibility.proof.root
               = tasks[t].claimState.eligibility.merkleRoot

\* C13: handleSubmitClaim writes the store only once the claimPayout receipt
\* is obtained: its start and every step of it that obtains no receipt, a
\* failure at any point included, leave the store as it was.
C13_NoWriteBeforeReceipt ==
    [][/\ \A t \in DOMAIN tasks :
             (Submitting(t) /\ tasks'[t] # tasks[t] /\ receipts' = receipts)
                => store' = store
       /\ (Len(tasks') > Len(tasks)
             /\ (outcome'.kind = "submit" \/ tasks'[Len(tasks')].pc = "proving"))
                => store' = store]_vars

\* a submission failed at the prover, at a ledger read or at the transaction
C13_Witness ==
    /\ outcome.kind = "submit" /\ outcome.pc = "failed"
    /\ outcome.error \in {"ProofFailed", "RequestFailed", "TransactionFailed"}
    /\ StoredPolicies # <<>>

\* the last call a session finished, 0 if none
LastWritten(session) ==
    IF \E t \in DOMAIN tasks : tasks[t].session = session /\ tasks[t].pc = "written"
    THEN CHOOSE t \in DOMAIN tasks :
            /\ tasks[t].session = session /\ tasks[t].pc = "written"
            /\ \A u \in DOMAIN tasks :
                  (tasks[u].session = session /\ tasks[u].pc = "written") => u <= t
    ELSE 0

\* C14: operations on different policies of one wallet that overlap, from two
\* sessions on the same storage included, lose no update: once the calls have
\* returned, the record of each policy carries the status its last call wrote.
C14_NoLostUpdate ==
    (\A t \in DOMAIN tasks : tasks[t].pc = "written") =>
        \A session \in Sessions :
            LastWritten(session) # 0 =>
                \E p \in StoredRecords(ToDecString(session)) :
                    p.status = tasks[LastWritten(session)].updates.status

---------------------------------------------------------------------------
(* Properties of the eligibility check. *)

\* the records a store holds for the wallet under a policyId
RecordsOf(st, policyId) ==
    LET list == getPoliciesForAddress(st, WalletAddress)
    IN  {list[i] : i \in {j \in DOMAIN list : list[j].policyId = policyId}}

\* invocation t of handleCheckClaim completes in this step
CheckCompletes(t) ==
    /\ InFlight(t)
    /\ tasks[t].kind = "check" /\ tasks[t].pc = "proof"
    /\ tasks'[t] = ReturnedTask
    /\ outcome'.pc = "done"

\* C15: an eligibility check that gets from the oracle the root, the price and
\* the proof the stored snapshot was made from stores the same status and the
\* same snapshot again.
C15_CheckIdempotent ==
    [][\A t \in DOMAIN tasks :
          CheckCompletes(t) =>
             \A p \in RecordsOf(store, tasks[t].policyId) :
             \A q \in RecordsOf(store', tasks[t].policyId) :
                (/\ Has(p, "eligibility") /\ Has(p.eligibility, "proof")
                 /\ p.status \in {"eligible", "ineligible"}
                 /\ p.eligibility.merkleRoot = tasks[t].merkleRoot
                 /\ p.eligibility.currentPrice = tasks[t].currentPrice
                 /\ p.eligibility.proof = q.eligibility.proof)
                   => /\ q.status = p.status
                      /\ q.eligibility = p.eligibility
                      /\ claimStates'[tasks[t].policyId].status = p.status]_vars

\* a check of a policy that held a snapshot returned and rewrote nothing
C15_Witness ==
    /\ outcome.kind = "check" /\ outcome.pc = "done"
    /\ ~outcome.rewrote
    /\ \E p \in StoredRecords(outcome.policyId) :
          Has(p, "eligibility") /\ p.status = "eligible"

---------------------------------------------------------------------------
(* Properties of checkEligibility's arithmetic. *)

\* dropAmount / originalPrice * 100 >= threshold over the rationals
ExactPercentAtLeast(dropAmount, originalPrice, threshold) ==
    dropAmount >= (threshold * originalPrice + 99) \div 100

EligibilityReturned == outcome.kind = "eligibility" /\ outcome.pc = "returned"

\* C16: for every original price, current price and threshold, checkEligibility
\* returns dropAmount = max(0, originalPrice - currentPrice) and
\* eligible = (dropAmount > 0 and dropAmount / originalPrice * 100 >= threshold)
C16_EligibleAsComputed ==
    EligibilityReturned =>
        LET input == outcome.input
            dropAmount == IF input.originalPrice > input.currentPrice
                          THEN input.originalPrice - input.currentPrice ELSE 0
        IN  /\ outcome.result.dropAmount = dropAmount
            /\ outcome.result.eligible =
                  (/\ dropAmount > 0
                   /\ ExactPercentAtLeast(dropAmount, input.originalPrice,
                                          input.dropThresholdPercent))

---------------------------------------------------------------------------
(* Properties of a failed eligibility check. *)

\* invocation t of handleCheckClaim returns in this step, product not found
ProductNotFoundAt(t) ==
    /\ InFlight(t)
    /\ tasks[t].kind = "check"
    /\ tasks'[t] = ReturnedTask
    /\ outcome'.pc = "failed"
    /\ outcome'.error = "ProductNotFound"

\* C17: when no catalog entry matches, checkEligibility fails with the
\* product-not-found error before it requests a Merkle proof, and
\* handleCheckClaim leaves the stored records of the wallet as they were.
C17_NotFoundKeepsRecord ==
    [][\A t \in DOMAIN tasks :
          ProductNotFoundAt(t) =>
              /\ tasks[t].pc = "prices"
              /\ ~Has(tasks[t], "merkleRoot")
              /\ store' = store
              /\ policies' = policies]_vars

\* a check of a policy stored as eligible, with its snapshot, failed that way
C17_Witness ==
    /\ outcome.kind = "check" /\ outcome.pc = "failed"
    /\ outcome.error = "ProductNotFound"
    /\ \E p \in StoredRecords(outcome.policyId) :
          Has(p, "eligibility") /\ p.status = "eligible"

---------------------------------------------------------------------------
(* Properties of the premium tiers. *)

TierCalled == outcome.kind = "tier" /\ outcome.pc # "called"

TierReturned == outcome.kind = "tier" /\ outcome.pc = "returned"

TierFailed == outcome.kind = "tier" /\ outcome.pc = "failed"

\* the boundaries that hold the price
BoundariesOf(invoicePrice) ==
    {i \in DOMAIN TIER_BOUNDARIES : InBoundary(invoicePrice, TIER_BOUNDARIES[i])}

\* C18: the tier boundaries cover every price from 1000000 to 10000000000:
\* calculateTierAndPremium fails only for a price outside that range.
C18_RangeCovered ==
    TierFailed =>
        \/ ~AtLeast(outcome.invoicePrice, Amount(1, 0))
        \/ ~AtMost(outcome.invoicePrice, Amount(10000, 0))

\* C19: the tier boundaries are closed intervals in ascending order and
\* pairwise disjoint, so the first boundary found to hold a price is the only
\* boundary that holds it.
C19_BoundariesDisjoint ==
    /\ \A i \in DOMAIN TIER_BOUNDARIES :
          AtMost(TIER_BOUNDARIES[i].min, TIER_BOUNDARIES[i].max)
    /\ \A i, j \in DOMAIN TIER_BOUNDARIES :
          i < j => ~AtLeast(TIER_BOUNDARIES[i].max, TIER_BOUNDARIES[j].min)
    /\ TierReturned =>
          /\ Cardinality(BoundariesOf(outcome.invoicePrice)) = 1
          /\ \A i \in BoundariesOf(outcome.invoicePrice) :
                outcome.tier = TIER_BOUNDARIES[i].tier

\* the first price of tier 3, an end point, was given its tier
C19_Witness ==
    /\ TierReturned
    /\ outcome.invoicePrice = Amount(500, 0)
    /\ outcome.tier = 3

\* C20: calculateTierAndPremium returns the tier and the premium of the boundary
\* that holds the price, the same for every price of the boundary, end points
\* included (199990000 gives tier 2 and premium 3000000); it fails with the
\* out-of-range error for a price <= 0 and for a price above the last boundary's
\* max, and never returns a tier for a price no boundary holds.
C20_TierOfBoundary ==
    /\ TierReturned =>
          \E i \in DOMAIN TIER_BOUNDARIES :
             /\ InBoundary(outcome.invoicePrice, TIER_BOUNDARIES[i])
             /\ outcome.tier = TIER_BOUNDARIES[i].tier
             /\ outcome.premium = TIER_BOUNDARIES[i].premium
    /\ (TierCalled /\ outcome.invoicePrice = Amount(199, 990000)) =>
          TierReturned /\ outcome.tier = 2 /\ outcome.premium = Amount(3, 0)
    /\ (TierCalled /\ \/ AtMost(outcome.invoicePrice, Amount(0, 0))
                      \/ ~AtMost(outcome.invoicePrice,
                                 TIER_BOUNDARIES[Len(TIER_BOUNDARIES)].max)) =>
          TierFailed /\ outcome.error = "OutsideTierRanges"

\* the price 199990000 was given tier 2 and premium 3000000
C20_Witness ==
    /\ TierReturned
    /\ outcome.invoicePrice = Amount(199, 990000)
    /\ outcome.premium = Amount(3, 0)

---------------------------------------------------------------------------
(* Properties of the circuit inputs. *)

\* a string BigInt cannot parse: neither decimal digits nor a hexadecimal literal
Unparseable(chars) == BigIntOfString(Trim(chars)) = SyntaxError

\* C21: every empty or unparseable string given to toFieldString encodes to
\* the field-zero element "0": a string that starts with 0x but is not valid
\* hex, and a non-numeric string, both give "0".
C21_UnparseableIsZero ==
    (outcome.kind = "toFieldString" /\ outcome.pc = "returned"
        /\ (Trim(outcome.value.chars) = <<>> \/ Unparseable(outcome.value.chars)))
    => outcome.result = <<"0">>

\* C22: buildCircuitInputs never throws for a record the insure flow produced,
\* whatever the oracle's proof, also when invoiceDate or policyPurchaseDate is
\* a number that is not an integer.
C22_InputsTotal ==
    ~(outcome.kind = "buildCircuitInputs" /\ outcome.pc = "failed")

---------------------------------------------------------------------------
(* Properties of the proof handed to claimPayout. *)

\* a, b and c with each of the first two pairs of pi_b swapped once
SwappedOnce(fullProof) ==
    [a |-> <<fullProof.proof.pi_a[1], fullProof.proof.pi_a[2]>>,
     b |-> <<<<fullProof.proof.pi_b[1][2], fullProof.proof.pi_b[1][1]>>,
             <<fullProof.proof.pi_b[2][2], fullProof.proof.pi_b[2][1]>>>>,
     c |-> <<fullProof.proof.pi_c[1], fullProof.proof.pi_c[2]>>]

\* C23: the proof claimPayout receives has b[i] = [pi_b[i][1], pi_b[i][0]] for
\* both pairs and a and c in the prover's order, and formatProof,
\* formatProofForSolidity and both serializeProofForContract versions give
\* that same a, b and c for the same prover output.
C23_SwappedOnce ==
    /\ (outcome.kind = "format" /\ outcome.pc = "returned") =>
          outcome.result = SwappedOnce(outcome.fullProof)
    /\ (outcome.kind = "generateClaimProof" /\ outcome.pc = "submitted") =>
          /\ outcome.claimPayout.a = SwappedOnce(outcome.fullProof).a
          /\ outcome.claimPayout.b = SwappedOnce(outcome.fullProof).b
          /\ outcome.claimPayout.c = SwappedOnce(outcome.fullProof).c

\* claimPayout was called with a proof whose pairs have two different elements
C23_Witness ==
    /\ outcome.kind = "generateClaimProof" /\ outcome.pc = "submitted"
    /\ outcome.fullProof.proof.pi_b[1][1] # outcome.fullProof.proof.pi_b[1][2]
    /\ outcome.fullProof.proof.pi_b[2][1] # outcome.fullProof.proof.pi_b[2][2]
    /\ outcome.claimPayout.b[1][1] = outcome.fullProof.proof.pi_b[1][2]

\* C24: when local verification returns false or the verification key cannot
\* be loaded, generateClaimProof still returns the formatted proof, and only
\* a failure of the prover makes generateClaimProof fail.
C24_OnlyProverFails ==
    outcome.kind = "generateClaimProof" =>
        /\ Has(outcome, "verified") =>
              /\ outcome.pc \in {"returned", "submitted"}
              /\ outcome.result = outcome.formatted
        /\ outcome.pc = "failed" => outcome.prover = "failed"

---------------------------------------------------------------------------
(* Properties of the store of several wallets. *)

\* the call a step of the log makes
LastCall == tasks'[Len(tasks')]

CallMade == Len(tasks') = Len(tasks) + 1

SameButCase(a, b) == ToLowerCase(a) = ToLowerCase(b)

\* C25: every operation of the store (get, save, update, merge and clear,
\* for policies and for commitments) leaves the same store and returns the
\* same result under every spelling of its address that differs only in the
\* case of the letters.
C25_CaseInsensitive ==
    [][CallMade =>
          \A a \in WalletAddresses :
             SameButCase(a, LastCall.address) =>
                LET r == ApplyCall([LastCall EXCEPT !.address = a], store)
                IN  /\ r.store = store'
                    /\ r.result = LastCall.result]_vars

\* a record saved under one spelling is found by an update or merge under the other
C25_Witness ==
    \E i, j \in DOMAIN tasks :
       /\ i < j
       /\ tasks[i].kind = "save"
       /\ tasks[i].address = WalletAddress
       /\ tasks[j].kind \in {"update", "merge"}
       /\ tasks[j].address = ToLowerCase(WalletAddress)
       /\ tasks[j].address # WalletAddress
       /\ tasks[j].result.found

\* the record of the policyId before the call
RecordBefore(call) ==
    LET existing == getPoliciesForAddress(store, call.address)
    IN  existing[FindIndex(existing, call.policyId)]

EligibilityOf(policy) ==
    IF Has(policy, "eligibility") THEN policy.eligibility ELSE EmptyObject

\* C26: a merge that finds its record takes every top-level field of the
\* updates and keeps every other one; within eligibility it takes the fields
\* the updates give and keeps the others, and updates without eligibility
\* leave the stored snapshot as it was.
C26_DeepMerge ==
    [][(CallMade /\ LastCall.kind = "merge" /\ LastCall.result.found) =>
          LET before == RecordBefore(LastCall)
              after == LastCall.result.policy
              updates == LastCall.updates
          IN  /\ \A f \in DOMAIN updates \ {"eligibility"} :
                    Has(after, f) /\ after[f] = updates[f]
              /\ \A f \in DOMAIN before \ (DOMAIN updates \cup {"eligibility"}) :
                    Has(after, f) /\ after[f] = before[f]
              /\ Has(after, "eligibility") <=>
                    (Has(before, "eligibility") \/ Has(updates, "eligibility"))
              /\ IF Has(updates, "eligibility")
                 THEN /\ \A g \in DOMAIN updates.eligibility :
                            Has(after.eligibility, g)
                            /\ after.eligibility[g] = updates.eligibility[g]
                      /\ \A g \in DOMAIN EligibilityOf(before)
                                     \ DOMAIN updates.eligibility :
                            Has(after.eligibility, g)
                            /\ after.eligibility[g] = before.eligibility[g]
                 ELSE EligibilityOf(after) = EligibilityOf(before)]_vars

\* a stored snapshot merged with the current price alone: the price is the
\* new one and the root is the stored one
C26_Witness ==
    \E i \in DOMAIN tasks :
       /\ tasks[i].kind = "merge"
       /\ tasks[i].result.found
       /\ tasks[i].updates = [eligibility |-> [currentPrice |-> 190]]
       /\ Has(tasks[i].result.policy.eligibility, "merkleRoot")
       /\ tasks[i].result.policy.eligibility.currentPrice = 190
       /\ tasks[i].result.policy.eligibility.merkleRoot = <<"4", "3">>

UpdaterOf(call) ==
    IF call.kind = "merge" THEN [kind |-> "merge", updates |-> call.updates]
    ELSE call.updater

StoredHashes(st, walletAddress) ==
    {getPoliciesForAddress(st, walletAddress)[i].transactionHash :
        i \in DOMAIN getPoliciesForAddress(st, walletAddress)}

\* C28: a call other than clearPoliciesForAddress keeps every transaction
\* hash stored for every address, and clearPoliciesForAddress keeps those of
\* every address but the one it is given.
C28_HashesOnlyGrow ==
    [][CallMade =>
          \A a \in WalletAddresses :
             (LastCall.kind = "clear" /\ SameButCase(a, LastCall.address))
             \/ StoredHashes(store, a) \subseteq StoredHashes(store', a)]_vars

\* the same for the number of records: no call but the clear removes a record
C28_RecordsOnlyGrow ==
    [][CallMade =>
          \A a \in WalletAddresses :
             (LastCall.kind = "clear" /\ SameButCase(a, LastCall.address))
             \/ Len(getPoliciesForAddress(store, a))
                   <= Len(getPoliciesForAddress(store', a))]_vars

---------------------------------------------------------------------------
(* Properties of handleItemInsure. *)

\* the stored policies were each saved at a receipt
SavedAtReceipts ==
    LET stored == getPoliciesForAddress(store, WalletAddress)
    IN  /\ Len(stored) = Len(receipts)
        /\ \A i \in DOMAIN stored :
              /\ stored[i].transactionHash = receipts[i].hash
              /\ \A j \in DOMAIN stored :
                    stored[j].transactionHash = stored[i].transactionHash => j = i
        /\ Len(getCommitmentsForAddress(store, WalletAddress)) = Len(receipts)

\* C29: the store changes only in the step in which a handleItemInsure
\* obtains the receipt of its buyPolicy transaction; that step appends one
\* policy, of the receipt's hash and of status active, and one commitment.
\* A handler that fails leaves the store as it was, and each receipt has
\* exactly one stored policy.
C29_SavedAtReceipt ==
    [][/\ store' # store =>
             /\ Len(receipts') = Len(receipts) + 1
             /\ outcome'.pc = "success"
             /\ LET stored == getPoliciesForAddress(store', WalletAddress)
                    new == stored[Len(stored)]
                IN  /\ Front(stored) = getPoliciesForAddress(store, WalletAddress)
                    /\ new.transactionHash = receipts'[Len(receipts')].hash
                    /\ new.status = "active"
       /\ (outcome' # outcome /\ outcome'.pc = "zkError") => store' = store
       /\ SavedAtReceipts']_vars

\* one purchase failed at the wait and saved nothing before another was
\* confirmed and saved
C29_Witness ==
    /\ Len(tasks) = 2
    /\ \A t \in DOMAIN tasks : ~InFlight(t)
    /\ Len(receipts) = 1
    /\ outcome.pc = "zkError"
    /\ outcome.failedAt = "waiting"
    /\ Len(getPoliciesForAddress(store, WalletAddress)) = 1
    /\ getPoliciesForAddress(store, WalletAddress)[1].status = "active"

---------------------------------------------------------------------------
(* Properties of the prover module. *)

\* the artifact sets the callers have received
ReceivedArtifacts ==
    {tasks[t].artifacts : t \in {u \in DOMAIN tasks : Has(tasks[u], "artifacts")}}

\* C30: no artifact is fetched more than once, and all the callers that
\* have received artifacts have received the same set.
C30_FetchedOnce ==
    /\ \A name \in ArtifactNames : fetches[name] <= 1
    /\ Cardinality(ReceivedArtifacts) <= 1

\* what does hold: once the cache is set it stays as it is, no fetch is
\* made again, and every call made from then on receives the cached set
C30_CachedIsReused ==
    [][cachedArtifacts # NoArtifacts =>
          /\ fetches' = fetches
          /\ Len(tasks') > Len(tasks) =>
                tasks'[Len(tasks')].artifacts = cachedArtifacts]_vars

---------------------------------------------------------------------------
(* Properties of the catalog API. *)

\* no two entries of the list have the same id but for case and blanks
OnePerId(products) ==
    \A i, j \in DOMAIN products :
       ToUpperCase(Trim(products[i].id)) = ToUpperCase(Trim(products[j].id)) => i = j

\* the body has no id to speak of, or no positive finite basePrice
Rejectable(body) ==
    \/ ~Has(body, "id")
    \/ body.id.type # "string"
    \/ Trim(body.id.chars) = <<>>
    \/ ~Has(body, "basePrice")
    \/ ~Has(NumberOf(body), "thousandths")
    \/ NumberOf(body).thousandths <= 0

\* C31: after every POST the catalog has at most one entry per normalized
\* id.  A rejected request (no id, an empty id, a basePrice that is not a
\* positive finite number) is answered 400 and leaves the catalog as it was;
\* any other replaces the entry of its normalized id in place, the others
\* and their order kept, or appends one entry when there is none.
C31_Upsert ==
    [][LET body == outcome'.body
           key == ToUpperCase(Trim(body.id.chars))
           held == {i \in DOMAIN catalog : ToUpperCase(Trim(catalog[i].id)) = key}
       IN  /\ OnePerId(catalog')
           /\ IF Rejectable(body)
              THEN outcome'.status = 400 /\ catalog' = catalog
              ELSE /\ outcome'.status = 200
                   /\ IF held = {}
                      THEN /\ Len(catalog') = Len(catalog) + 1
                           /\ Front(catalog') = catalog
                           /\ catalog'[Len(catalog')].id = key
                      ELSE /\ Len(catalog') = Len(catalog)
                           /\ \A i \in DOMAIN catalog :
                                 IF i \in held THEN catalog'[i] = outcome'.product
                                 ELSE catalog'[i] = catalog[i]
                   /\ outcome'.product.id = key]_vars

\* a default entry was replaced in place, a new one appended, and the last
\* request was rejected
C31_Witness ==
    /\ Len(catalog) = Len(DEFAULT_PRODUCTS) + 1
    /\ catalog[2].id = DEFAULT_PRODUCTS[2].id
    /\ catalog[2].basePrice # DEFAULT_PRODUCTS[2].basePrice
    /\ catalog[1] = DEFAULT_PRODUCTS[1]
    /\ outcome.kind = "POST"
    /\ outcome.status = 400

\* the requests have all been answered
AllAnswered == Len(tasks) = MaxPosts /\ \A t \in DOMAIN tasks : ~InFlight(t)

\* C40: when the POST requests handled concurrently have all been answered,
\* the catalog holds, once, the product of every request answered 200.
C40_NoLostUpdate ==
    AllAnswered =>
       \A t \in DOMAIN tasks :
          tasks[t].status = 200 =>
             Cardinality({i \in DOMAIN catalog : catalog[i].id = tasks[t].product.id}) = 1

\* what does hold: in every interleaving the catalog has one entry per id,
\* also after two requests for the same new id
C40_OneEntryPerId == OnePerId(catalog)

---------------------------------------------------------------------------
(* Properties of the eligibility check on a wallet of several policies. *)

\* the fields of a policy record an eligibility check has no business with
KeptFields(policy) == DOMAIN policy \ {"status", "eligibility"}

StoredOf(st) == getPoliciesForAddress(st, WalletAddress)

\* an eligibility check has just finished
CheckFinished == outcome' # outcome /\ outcome'.kind = "check"

Finished(policyId) ==
    \A t \in DOMAIN tasks : InFlight(t) => tasks[t].policyId # policyId

SettledStatuses == {"eligible", "ineligible", "claimed"}

\* the in-memory status of the policy is the stored one
StatusAgrees(cs, st, policyId) ==
    LET stored == StoredOf(st)
        index == FindIndex(stored, policyId)
    IN  /\ index # 0
        /\ stored[index].status = cs[policyId].status

\* C38: for every policy with no handler in flight whose in-memory claim
\* status is eligible, ineligible or claimed, the stored record of the
\* policy has that status.
C38_MemoryMatchesStore ==
    \A policyId \in DOMAIN claimStates :
       (Finished(policyId) /\ claimStates[policyId].status \in SettledStatuses)
          => StatusAgrees(claimStates, store, policyId)

\* what does hold: a check that finishes with its merge written leaves the
\* in-memory status and the stored one the same
C38_SavedMatches ==
    [][(CheckFinished /\ outcome'.pc = "done" /\ ~Has(outcome', "unsaved"))
          => StatusAgrees(claimStates', store', outcome'.policyId)]_vars

---------------------------------------------------------------------------
(* Properties of the order of the claim path. *)

\* the stored records of the wallet that are claimed
ClaimedRecords(st) ==
    {i \in DOMAIN StoredOf(st) : StoredOf(st)[i].status = "claimed"}

\* C33: a claimPayout transaction is sent only by a submission that holds
\* an eligibility snapshot with its proof, has its claim proof generated,
\* and has had priceMerkleRoot() and policies(policyId) answered with
\* values that pass the three checks; a stored record becomes claimed only
\* in the step in which the submission obtains the receipt of its mined
\* transaction.
C33_ClaimPathOrder ==
    [][/\ Len(txs') > Len(txs) =>
             \E t \in DOMAIN tasks :
                /\ tasks[t].pc = "reading"
                /\ tasks[t].kind = "submit"
                /\ tasks'[t].pc = "waiting"
                /\ Has(tasks[t].claimState, "eligibility")
                /\ Has(tasks[t].claimState.eligibility, "proof")
                /\ Has(tasks[t], "onChainRoot")
                /\ Has(tasks[t], "storedPolicy")
                /\ VerifyLedger(tasks[t].claimState.eligibility.merkleRoot,
                                toHex32(tasks[t].onChainRoot),
                                tasks[t].storedPolicy, SignerAddress) = "ok"
       /\ \A t \in DOMAIN tasks :
             (tasks[t].pc # "reading" /\ tasks'[t].pc = "reading")
                => tasks[t].pc = "proving"
       /\ ClaimedRecords(store') \ ClaimedRecords(store) # {} =>
             \E t \in DOMAIN tasks :
                /\ tasks[t].pc = "waiting"
                /\ tasks[t].kind = "submit"
                /\ txs[tasks[t].tx].status = "success"
                /\ Len(receipts') = Len(receipts) + 1
                /\ outcome'.pc = "done"]_vars

\* a submission went all the way: its transaction was mined, the receipt
\* obtained and the record stored as claimed
C33_Witness ==
    /\ outcome.kind = "submit"
    /\ outcome.pc = "done"
    /\ Len(receipts) > 0
    /\ \E k \in DOMAIN txs : txs[k].status = "success"
    /\ ClaimedRecords(store) # {}

---------------------------------------------------------------------------
(* Properties of the eligibility check when the proof's root differs. *)

\* the result checkEligibility computes from the two prices alone
ResultAsUsual(task, entry) ==
    LET usual == checkEligibility(task.policy.purchaseDetails.invoicePrice,
                                  task.currentPrice, task.merkleRoot,
                                  entry.eligibility.proof, DEFAULT_DROP_THRESHOLD)
    IN  /\ entry.status = (IF usual.eligible THEN "eligible" ELSE "ineligible")
        /\ entry.eligibility.dropPercentage = usual.dropPercentage
        /\ entry.eligibility.dropAmountMicros = usual.dropAmount
        /\ entry.eligibility.currentPriceMicros = usual.currentPrice
        /\ entry.eligibility.payoutAmount = usual.payoutAmount
        /\ entry.eligibility.merkleRoot = task.merkleRoot

\* C34: a check that waits for the Merkle proof ends either because the
\* request for the proof failed, or with status eligible or ineligible and
\* the result computed as usual from the two prices, whatever root the
\* proof carries: a proof whose root differs from the root the catalog
\* reported is no failure.
C34_RootMismatchTolerated ==
    [][\A t \in DOMAIN tasks :
          (tasks[t].pc = "proof" /\ tasks'[t].pc = "returned") =>
             \/ /\ outcome'.pc = "failed"
                /\ outcome'.error = "RequestFailed"
             \/ /\ outcome'.pc = "done"
                /\ tasks[t].policyId \in DOMAIN claimStates'
                /\ ResultAsUsual(tasks[t], claimStates'[tasks[t].policyId])]_vars

\* a check finished as eligible and stored a snapshot whose proof carries
\* another root than the catalog reported
C34_Witness ==
    /\ outcome.kind = "check"
    /\ outcome.pc = "done"
    /\ outcome.rewrote
    /\ \E i \in DOMAIN StoredOf(store) :
          /\ StoredOf(store)[i].policyId = outcome.policyId
          /\ StoredOf(store)[i].status = "eligible"
          /\ StoredOf(store)[i].eligibility.proof.root
                # StoredOf(store)[i].eligibility.merkleRoot
          /\ claimStates[outcome.policyId].status = "eligible"
          /\ claimStates[outcome.policyId].eligibility.proof
                = StoredOf(store)[i].eligibility.proof

---------------------------------------------------------------------------
(* Properties of the product lookup. *)

EqualIgnoringCase(a, b) == ToLowerCase(a) = ToLowerCase(b)

\* C35: when the price list holds an entry whose id equals the requested id
\* ignoring case, the lookup finds an entry and does not throw; the entry
\* found has the normalized id of the request (upper case, everything but
\* letters and digits removed), or, when the request normalizes to the
\* empty string, the id of the request ignoring case and surrounding blanks.
C35_CaseInsensitiveFound ==
    (outcome.kind = "match" /\ outcome.pc # "called") =>
        /\ (\E i \in DOMAIN outcome.prices :
               EqualIgnoringCase(outcome.prices[i].id, outcome.productId))
              => outcome.pc = "matched"
        /\ outcome.pc = "matched" =>
              IF normalizeOracleProductId(outcome.productId) # <<>>
              THEN normalizeOracleProductId(outcome.matchedProduct.id)
                      = normalizeOracleProductId(outcome.productId)
              ELSE EqualIgnoringCase(Trim(outcome.matchedProduct.id),
                                     Trim(outcome.productId))

\* an id without letter or digit was requested and found by the exact
\* match, behind an entry with another such id
C35_Witness ==
    /\ outcome.kind = "match"
    /\ outcome.pc = "matched"
    /\ normalizeOracleProductId(outcome.productId) = <<>>
    /\ Len(outcome.prices) = 2
    /\ normalizeOracleProductId(outcome.prices[1].id) = <<>>
    /\ outcome.matchedProduct = outcome.prices[2]
    /\ EqualIgnoringCase(outcome.matchedProduct.id, outcome.productId)

---------------------------------------------------------------------------
(* Properties of the purchase of a policy for an order item. *)

\* the price of the invoice is in none of the tiers
OutsideTiers(task) ==
    calculateTierAndPremium(AmountOf(task.invoiceData.purchasePriceUsd)).threw

\* the handler is past buildCommitment: the contracts, allowance and approve,
\* buyPolicy, the receipt
AtLedger(task) == task.pc \in {"allowance", "approving", "purchasing", "waiting"}

\* C36: the step that settles buildCommitment for a price outside the tiers
\* ends the handler: the error is recorded, the purchase step is idle again,
\* the store, the ledger and the receipts are as before and the handler
\* never comes to the allowance, the approval or buyPolicy.
C36_NoTierNoPurchase ==
    [][\A t \in DOMAIN tasks :
          (/\ tasks[t].pc = "generating"
           /\ tasks'[t] # tasks[t]
           /\ OutsideTiers(tasks[t])) =>
              /\ tasks'[t].pc = "returned"
              /\ outcome'.pc = "zkError"
              /\ outcome'.zkError = "OutsideTierRanges"
              /\ outcome'.zkStep = "idle"
              /\ ~Has(outcome', "transactionHash")
              /\ UNCHANGED <<store, policies, claimStates, ledgerPolicies, txs,
                             receipts>>]_vars

\* no handler whose price is outside the tiers is past buildCommitment
C36_NeverAtLedger ==
    \A t \in DOMAIN tasks :
        (InFlight(t) /\ AtLedger(tasks[t])) => ~OutsideTiers(tasks[t])

\* the purchase of an item priced between two tiers ended with the error,
\* beside a purchase that was saved
C36_Witness ==
    /\ outcome.kind = "insure"
    /\ outcome.pc = "zkError"
    /\ outcome.failedAt = "generating"
    /\ outcome.zkError = "OutsideTierRanges"
    /\ Len(tasks) = 2
    /\ Len(receipts) = 1
    /\ Len(StoredOf(store)) = 1

\* the number toFieldString reads from a stored value; SyntaxError when it throws
FieldNumber(value) ==
    IF toFieldString(value).threw THEN SyntaxError
    ELSE BigIntOfString(toFieldString(value).value)

OpeningFields == <<"orderHash", "invoicePrice", "invoiceDate", "productHash",
                   "salt", "selectedTier">>

\* the i-th field of the record's purchaseDetails is the i-th number hashed
OpensField(policy, i) ==
    FieldNumber(policy.purchaseDetails[OpeningFields[i]])
        = policy.secretCommitment.poseidon[i]

\* C37: every stored record's orderHash, invoicePrice, invoiceDate,
\* productHash, salt and selectedTier are the six numbers hashed into its
\* secretCommitment.
C37_RecordsOpenCommitments ==
    \A r \in DOMAIN StoredOf(store) :
        \A i \in DOMAIN OpeningFields : OpensField(StoredOf(store)[r], i)

\* all fields but the invoice date are the numbers hashed, and the invoice
\* date is when the record was saved for an order date at midnight
C37_AllButTheDate ==
    \A r \in DOMAIN StoredOf(store) :
        /\ \A i \in DOMAIN OpeningFields \ {3} : OpensField(StoredOf(store)[r], i)
        /\ StoredOf(store)[r].purchaseDetails.invoiceDate = Num(86400000)
              => OpensField(StoredOf(store)[r], 3)

---------------------------------------------------------------------------
(* The frame of an update of the store. *)

====
